---- MODULE Spec2Model ----
(***************************************************************************)
(* Progressive image loading in the fisheye viewers.                       *)
(*                                                                         *)
(* Three programs share one shape (a slot table filled in the background,  *)
(* a render/event thread that materializes the visible slot):              *)
(*   "single"   FisheyeViewer with a worker pool  (single_undistort.cpp,   *)
(*              second FisheyeViewer class, lines 699-1135)                *)
(*   "stereo"   StereoFisheyeViewer with a worker pool (dual_main.cpp)     *)
(*   "prefetch" FisheyeViewer with one prefetch thread                     *)
(*              (single_undistort.cpp, lines 360-698)                      *)
(* Two more programs load a camera calibration first (CalibSpec):          *)
(*   "stereo_undistort"  StereoFisheyeViewer with undistortion (README.md) *)
(*   "preview"           FisheyeUndistorter (single_undistort.cpp, 1-359)  *)
(* The variable viewer, fixed by Init, says which program runs.            *)
(*                                                                         *)
(* Threads take one step per access to shared memory: a read of running,   *)
(* the fetch_add, the end of a file load, a lock acquisition, a critical   *)
(* section up to its unlock.                                               *)
(***************************************************************************)
EXTENDS Integers, FiniteSets, Sequences, TLC

(* ---------------------------- bounds ----------------------------------- *)
\* Longest image sequence explored (images.size() ranges over 0..MaxN).
MaxN == 3
\* Eager window and pool size of the explored configurations.  The sources
\* set 10 and 4 (INITIAL_LOAD_COUNT, NUM_LOADING_THREADS); the model keeps
\* the code's use of them and explores smaller values.
INITIAL_LOAD_COUNT == 1
NUM_LOADING_THREADS == 2
\* How many SDL calls of one run (IMG_Load, SDL_CreateTextureFromSurface)
\* may fail and return null.
MaxFailures == 1

(* ---------------------------- state ------------------------------------ *)
VARIABLES
    viewer,          \* "single" | "stereo" | "prefetch"
    N,               \* number of files the directory scan yields
    tableAlive,      \* images / stereoPairs holds its slots (resize .. clear)
    rendererAlive,   \* renderer not yet destroyed
    surface,         \* slot -> 0 (nullptr) or 1 (the decoded buffer)
    surfaceLoaded,   \* slot -> BOOLEAN
    texture,         \* slot -> 0 (nullptr) or k: the k-th texture made for it
    textureCreated,  \* slot -> BOOLEAN   (field `loaded` in the prefetch viewer)
    decodeTried,     \* history: slots whose IMG_Load call has returned
    currentIndex,    \* navigation cursor
    windowSize,      \* <<windowWidth, windowHeight>>
    running,         \* cancellation flag
    nextImageToLoad, \* shared claim counter
    backgroundLoadingComplete,
    threadsCompleted,\* function-local static of backgroundLoadingFunction
    imagesMutex,     \* owner of imagesMutex / imageMutex: Unlocked or a thread
    mpc,             \* position of the main (render/event) thread
    eagerI,          \* loop variable i of loadInitialImages
    wpc,             \* worker -> position
    widx,            \* worker -> claimed index (NoIndex when none)
    wres,            \* worker -> eyes whose IMG_Load returned a surface
    ppc,             \* position of the prefetch thread
    toLoad,          \* its indicesToLoad, the part not yet iterated
    sdlFailures,     \* SDL calls that returned null so far
    exitCode,        \* -1 while running, else the status main returns
    leftDir,         \* files of the left directory  (loadStereoPairs)
    rightDir,        \* files of the right directory
    leftBaseNames,   \* std::set of stems found in the left directory
    rightBaseNames,  \* std::set of stems found in the right directory
    matchingPairs,   \* std::vector of paired base names
    spc,             \* position inside the pairing part of loadStereoPairs
    choice,          \* the line read from std::cin at the cap prompt
    baseName,        \* stereoPairs[i]->baseName, as a sequence
    calibrationLoaded,\* loadCalibration succeeded
    mapKind,         \* camera -> "none" | "fisheye" | "rectilinear": its maps
    fallbackTries,   \* history: camera -> fallback constructions attempted
    remapped,        \* history: slots whose stored surface undistortImage made
    processed,       \* history: the preview tool has processed its image
    sizeWrites,      \* history: assignments to outputImageSize, displayImageSize
    calFile,         \* the calibration text file: whether it exists, its lines
    loader,          \* which loader of load_calibration.cpp runs
    todo,            \* the requested names not yet read
    entries,         \* the std::map being filled: name -> matrix shape
    fpc              \* position in the loader

vars == <<viewer, N, tableAlive, rendererAlive, surface, surfaceLoaded, texture,
          textureCreated, decodeTried, currentIndex, windowSize, running,
          nextImageToLoad, backgroundLoadingComplete, threadsCompleted,
          imagesMutex, mpc, eagerI, wpc, widx, wres, ppc, toLoad,
          sdlFailures, exitCode, leftDir, rightDir, leftBaseNames,
          rightBaseNames, matchingPairs, spc, choice, baseName,
          calibrationLoaded, mapKind,
          fallbackTries, remapped, processed, sizeWrites, calFile, loader, todo, entries,
          fpc>>

slotVars == <<surface, surfaceLoaded, texture, textureCreated>>
poolVars == <<nextImageToLoad, backgroundLoadingComplete, threadsCompleted,
              wpc, widx, wres>>
uiVars   == <<currentIndex, windowSize>>
prefetchVars == <<ppc, toLoad>>
scanVars == <<leftDir, rightDir, leftBaseNames, rightBaseNames, matchingPairs,
              spc, choice, baseName>>
fileVars == <<calFile, loader, todo, entries, fpc>>
calibFixed == <<calibrationLoaded, mapKind, fallbackTries, processed,
                sizeWrites, fileVars>>
calibVars == <<calibFixed, remapped>>

NoIndex == -1

\* Owners of the mutex.
Unlocked == <<"none">>
HeldByMain == <<"main">>
HeldBy(w) == <<"worker", w>>

Workers == 1..NUM_LOADING_THREADS
\* "stereo_undistort" is the StereoFisheyeViewer with calibration (README.md),
\* "preview" the undistortion preview tool (FisheyeUndistorter).
PoolViewers == {"single", "stereo", "stereo_undistort"}
Cameras == {"left", "right"}
\* The programs whose main calls loadCalibration before anything is loaded.
CalibViewers == {"stereo_undistort", "preview"}

\* StereoImageData has a left and a right eye; ImageData has one image,
\* modelled as the eye "left" alone.
Eyes == IF viewer \in {"stereo", "stereo_undistort"}
          THEN {"left", "right"} ELSE {"left"}
Indices == 0..(N - 1)
Slots == Indices \X Eyes

Min(a, b) == IF a < b THEN a ELSE b

(* ---------------------- SDL calls that may fail ------------------------ *)
\* IMG_Load of the files of one index: the sets of eyes for which it may
\* return a surface, given how many loads have failed so far.
LoadOutcomes ==
    {ok \in SUBSET Eyes :
        sdlFailures + Cardinality(Eyes \ ok) <= MaxFailures}

\* SDL_CreateTextureFromSurface for the eyes in want: the subsets for which
\* it may return a texture.
TextureOutcomes(want) ==
    {ok \in SUBSET want :
        sdlFailures + Cardinality(want \ ok) <= MaxFailures}

(* ------------------------------ Init ----------------------------------- *)
InitCommon ==
    /\ N \in 0..MaxN
    /\ tableAlive = FALSE
    /\ rendererAlive = TRUE
    /\ surface = << >>
    /\ surfaceLoaded = << >>
    /\ texture = << >>
    /\ textureCreated = << >>
    /\ decodeTried = {}
    /\ currentIndex = 0
    /\ running = TRUE
    /\ nextImageToLoad = 0
    /\ backgroundLoadingComplete = FALSE
    /\ threadsCompleted = 0
    /\ imagesMutex = Unlocked
    /\ mpc = IF viewer \in CalibViewers THEN "calib" ELSE "load"
    /\ eagerI = 0
    /\ wpc = [w \in Workers |-> "unstarted"]
    /\ widx = [w \in Workers |-> NoIndex]
    /\ wres = [w \in Workers |-> {}]
    /\ ppc = "unstarted"
    /\ toLoad = << >>
    /\ sdlFailures = 0
    /\ exitCode = -1

\* The pairing part of loadStereoPairs is explored on its own (PairSpec);
\* in the viewers' runs its result is the list length N.
ScanIdle ==
    /\ leftDir = {}
    /\ rightDir = {}
    /\ leftBaseNames = {}
    /\ rightBaseNames = {}
    /\ matchingPairs = << >>
    /\ spc = "off"
    /\ choice = "unread"
    /\ baseName = << >>

\* No loader of load_calibration.cpp is running.
FileIdle ==
    /\ calFile = [exists |-> FALSE, lines |-> << >>]
    /\ loader = "none"
    /\ todo = << >>
    /\ entries = << >>
    /\ fpc = "off"

\* The calibration state after construction.
CalibIdle ==
    /\ calibrationLoaded = FALSE
    /\ mapKind = [c \in Cameras |-> "none"]
    /\ fallbackTries = [c \in Cameras |-> 0]
    /\ remapped = {}
    /\ processed = FALSE
    /\ sizeWrites = [output |-> 0, display |-> 0]
    /\ FileIdle

Init ==
    /\ viewer \in {"single", "stereo", "prefetch"}
    /\ windowSize = IF viewer = "stereo" THEN <<1600, 800>> ELSE <<1280, 720>>
    /\ InitCommon
    /\ ScanIdle
    /\ CalibIdle


(* ------------------- startup: list, eager window ----------------------- *)
FreshSlots(v) == [s \in Slots |-> v]

\* Mutant: the test for an empty list is left out.
ListEmptyUnchecked == FALSE

\* imageFiles.empty() / matchingPairs.empty() after the directory scan.
ListEmpty == N = 0

\* loadImageList / loadStereoPairs after the directory scan: an empty list
\* returns false (main then returns 1 and the destructor runs cleanup);
\* otherwise the slot table is sized to the list.
LoadList ==
    /\ mpc = "load"
    /\ viewer \in PoolViewers
    /\ IF ListEmpty
         THEN /\ exitCode' = 1
              /\ mpc' = "cleanup"
              /\ UNCHANGED <<tableAlive, slotVars>>
         ELSE /\ tableAlive' = TRUE
              /\ surface' = FreshSlots(0)
              /\ surfaceLoaded' = FreshSlots(FALSE)
              /\ texture' = FreshSlots(0)
              /\ textureCreated' = FreshSlots(FALSE)
              /\ mpc' = "eager"
              /\ UNCHANGED exitCode
    /\ UNCHANGED <<viewer, N, scanVars, calibVars, prefetchVars, rendererAlive, decodeTried, uiVars, running,
                   poolVars, imagesMutex, eagerI, sdlFailures>>

\* Mutant: the eager loop stops one index early.
InitialCountShort == Min(INITIAL_LOAD_COUNT, N) - 1

\* initialCount of loadInitialImages / loadInitialStereoPairs.
InitialCount == Min(INITIAL_LOAD_COUNT, N)

\* Mutant: nextImageToLoad = initialCount is left out.
EagerCursorUnset == nextImageToLoad

\* The value loadInitialImages leaves in nextImageToLoad.
EagerCursor == InitialCount

\* for (i = 0; i < initialCount; ++i): enter the body (IMG_Load starts), or
\* leave the loop and set the claim counter.
EagerLoop ==
    /\ mpc = "eager"
    /\ IF eagerI < InitialCount
         THEN /\ mpc' = "eager_decode"
              /\ UNCHANGED nextImageToLoad
         ELSE /\ nextImageToLoad' = EagerCursor
              /\ mpc' = "start"
    /\ UNCHANGED <<viewer, N, scanVars, calibVars, prefetchVars, tableAlive, rendererAlive, slotVars, decodeTried,
                   uiVars, running, backgroundLoadingComplete, threadsCompleted,
                   wpc, widx, wres, imagesMutex, eagerI, sdlFailures, exitCode>>

\* Mutant: a pair is stored only when both of its files loaded.
StoredPairOnly(ok) == IF ok = Eyes THEN ok ELSE {}

\* The eyes the critical section of a load function stores, given the eyes
\* whose IMG_Load returned a surface: if (leftSurface) {..} and
\* if (rightSurface) {..} are separate blocks, each eye is stored on its own.
Stored(ok) == ok

\* Mutant: the background load function creates the texture as well.
TextureAtStoreToo(fn) == TRUE

\* Which load function calls SDL_CreateTextureFromSurface next to its store:
\* loadInitialImages does ("Create texture immediately for initial images"),
\* loadSurfaceInBackground stores the surface only.
TextureAtStore(fn) == fn = "initial"

\* Mutant: undistortImage is called whether or not calibration loaded.
UndistortsAlways == TRUE

\* if (calibrationLoaded) in the load functions of the viewer with
\* calibration: a decoded surface is replaced by undistortImage's result
\* (a null result loses the frame); otherwise it is stored as decoded.
Undistorts == calibrationLoaded

\* Body of the eager loop for i = eagerI: IMG_Load (and undistortImage)
\* return, and under the
\* lock each surface that loaded is stored, flagged and turned into a
\* texture at once; textureCreated is set only when the texture is non-null.
EagerStore ==
    /\ mpc = "eager_decode"
    /\ imagesMutex = Unlocked
    /\ \E ok \in LoadOutcomes :
       \E tex \in SUBSET (IF TextureAtStore("initial") THEN Stored(ok) ELSE {}) :
        /\ sdlFailures + Cardinality(Eyes \ tex) <= MaxFailures
        /\ surface' = [s \in Slots |->
              IF s[1] = eagerI /\ s[2] \in Stored(ok) THEN 1 ELSE surface[s]]
        /\ surfaceLoaded' = [s \in Slots |->
              IF s[1] = eagerI /\ s[2] \in Stored(ok) THEN TRUE ELSE surfaceLoaded[s]]
        /\ texture' = [s \in Slots |->
              IF s[1] = eagerI /\ s[2] \in tex THEN texture[s] + 1 ELSE texture[s]]
        /\ textureCreated' = [s \in Slots |->
              IF s[1] = eagerI /\ s[2] \in tex THEN TRUE ELSE textureCreated[s]]
        /\ sdlFailures' = sdlFailures + Cardinality(Eyes \ tex)
        /\ remapped' = IF Undistorts
                          THEN remapped \cup ({eagerI} \X Stored(ok)) ELSE remapped
    /\ decodeTried' = decodeTried \cup ({eagerI} \X Eyes)
    /\ eagerI' = eagerI + 1
    /\ mpc' = "eager"
    /\ UNCHANGED <<viewer, N, scanVars, calibFixed, prefetchVars, tableAlive, rendererAlive, uiVars, running,
                   poolVars, imagesMutex, exitCode>>

\* startBackgroundLoading: the pool is started only for lists longer than
\* the eager window; loadImageList returns true and main enters run().
StartBackgroundLoading ==
    /\ mpc = "start"
    /\ IF N > INITIAL_LOAD_COUNT
         THEN /\ wpc' = [w \in Workers |-> "check"]
              /\ UNCHANGED backgroundLoadingComplete
         ELSE /\ backgroundLoadingComplete' = TRUE
              /\ UNCHANGED wpc
    /\ mpc' = "looptest"
    /\ UNCHANGED <<viewer, N, scanVars, calibVars, prefetchVars, tableAlive, rendererAlive, slotVars, decodeTried,
                   uiVars, running, nextImageToLoad, threadsCompleted, widx,
                   wres, imagesMutex, eagerI, sdlFailures,
                   exitCode>>

(* --------------------------- pool workers ------------------------------ *)
\* Mutant: the worker never sees the flag go down.
RunningStale == TRUE

\* The value a worker reads from the plain bool running.  The loop body
\* calls IMG_Load, the mutex and sleep_for, so the flag is read from memory
\* on every iteration.
RunningSeen == running

\* while (running): the worker reads the flag.
WorkerCheck(w) ==
    /\ wpc[w] = "check"
    /\ wpc' = [wpc EXCEPT ![w] = IF RunningSeen THEN "claim" ELSE "count"]
    /\ UNCHANGED <<viewer, N, scanVars, calibVars, prefetchVars, tableAlive, rendererAlive, slotVars, decodeTried,
                   uiVars, running, nextImageToLoad, backgroundLoadingComplete,
                   threadsCompleted, widx, wres, imagesMutex, mpc, eagerI,
                   sdlFailures, exitCode>>

\* Mutants: the increment is lost (a plain load), or skips an index.
FetchAddLost(c) == c
FetchAddTwo(c) == c + 2

\* nextImageToLoad.fetch_add(1): the new value of the counter.
FetchAdd(c) == c + 1

\* Mutant: the bound test is off by one and gives up the last index.
ClaimExhaustedEarly(idx) == idx >= N - 1

\* Mutant: the bound test also gives up a claimed index once running is
\* false.
ClaimExhaustedOrStopped(idx) == idx >= N \/ ~running

\* Mutant: the bound test after the claim is left out.
ClaimExhaustedNever(idx) == FALSE

\* if (currentIndex >= imageCount) break;
ClaimExhausted(idx) == idx >= N

\* size_t currentIndex = nextImageToLoad.fetch_add(1), the bound test, and
\* the call of loadSurfaceInBackground / loadStereoPairInBackground.
WorkerClaim(w) ==
    /\ wpc[w] = "claim"
    /\ nextImageToLoad' = FetchAdd(nextImageToLoad)
    /\ IF ClaimExhausted(nextImageToLoad)
         THEN /\ wpc' = [wpc EXCEPT ![w] = "count"]
              /\ UNCHANGED widx
         ELSE /\ wpc' = [wpc EXCEPT ![w] = "load"]
              /\ widx' = [widx EXCEPT ![w] = nextImageToLoad]
    /\ UNCHANGED <<viewer, N, scanVars, calibVars, prefetchVars, tableAlive, rendererAlive, slotVars, decodeTried,
                   uiVars, running, backgroundLoadingComplete, threadsCompleted,
                   wres, imagesMutex, mpc, eagerI, sdlFailures, exitCode>>

\* loadSurfaceInBackground / loadStereoPairInBackground up to the lock:
\* an index past the table returns at once; otherwise IMG_Load returns.
\* The single viewer takes the lock only for a non-null surface; the stereo
\* viewer takes it in every case.
WorkerLoad(w) ==
    /\ wpc[w] = "load"
    /\ IF widx[w] >= N
         THEN /\ wpc' = [wpc EXCEPT ![w] = "check"]
              /\ widx' = [widx EXCEPT ![w] = NoIndex]
              /\ UNCHANGED <<wres, sdlFailures, decodeTried>>
         ELSE \E ok \in LoadOutcomes :
              /\ sdlFailures' = sdlFailures + Cardinality(Eyes \ ok)
              /\ IF viewer = "single" /\ ok = {}
                   THEN /\ wpc' = [wpc EXCEPT ![w] = "check"]
                        /\ widx' = [widx EXCEPT ![w] = NoIndex]
                        /\ decodeTried' = decodeTried \cup ({widx[w]} \X Eyes)
                        /\ UNCHANGED wres
                   ELSE /\ wpc' = [wpc EXCEPT ![w] = "lock"]
                        /\ wres' = [wres EXCEPT ![w] = Stored(ok)]
                        /\ UNCHANGED <<widx, decodeTried>>
    /\ UNCHANGED <<viewer, N, scanVars, calibVars, prefetchVars, tableAlive, rendererAlive, slotVars, uiVars,
                   running, nextImageToLoad, backgroundLoadingComplete,
                   threadsCompleted, imagesMutex, mpc, eagerI, exitCode>>

\* Mutant: the lock_guard is placed before IMG_Load, so the decode runs
\* with the lock held.
AfterLockDecode == "load"

\* What the load function does once it holds the lock: the store.
AfterLock == "store"

\* Mutant: the load function stores without waiting for the mutex.
LockNotAwaited == TRUE

\* The lock_guard constructor returns only when no thread owns the mutex.
LockFree == imagesMutex = Unlocked

\* std::lock_guard<std::mutex> lock(imagesMutex) in the load function.
WorkerLock(w) ==
    /\ wpc[w] = "lock"
    /\ LockFree
    /\ imagesMutex' = HeldBy(w)
    /\ wpc' = [wpc EXCEPT ![w] = AfterLock]
    /\ UNCHANGED <<viewer, N, scanVars, calibVars, prefetchVars, tableAlive, rendererAlive, slotVars, decodeTried,
                   uiVars, running, nextImageToLoad, backgroundLoadingComplete,
                   threadsCompleted, widx, wres, mpc, eagerI, sdlFailures, exitCode>>

\* The eye the critical section handles next: the left one first.
NextEye(es) == IF "left" \in es THEN "left" ELSE "right"

\* Mutant: the flag is set before the pointer is stored.
StoreOrderFlagFirst == <<"flag", "pointer">>

\* The two assignments the critical section makes for a surface that
\* loaded, in the order of the code: ->surface = surface, then
\* ->surfaceLoaded = true.
StoreOrder == <<"pointer", "flag">>

\* One of the two assignments, made to slot s.
Assign(stmt, s) ==
    IF stmt = "pointer"
      THEN /\ surface' = [surface EXCEPT ![s] = 1]
           /\ remapped' = IF Undistorts THEN remapped \cup {s} ELSE remapped
           /\ UNCHANGED surfaceLoaded
      ELSE /\ surfaceLoaded' = [surfaceLoaded EXCEPT ![s] = TRUE]
           /\ UNCHANGED <<surface, remapped>>

\* The critical section of the load function: the first assignment for the
\* next surface that loaded; or, when none is left, the end of the block:
\* the lock is released, the call returns and the worker sleeps 5 ms before
\* the next loop test.
WorkerStore(w) ==
    /\ wpc[w] = "store"
    /\ imagesMutex = HeldBy(w)
    /\ IF wres[w] # {}
         THEN /\ Assign(StoreOrder[1], <<widx[w], NextEye(wres[w])>>)
              /\ wpc' = [wpc EXCEPT ![w] = "flag"]
              /\ UNCHANGED <<decodeTried, imagesMutex, widx, wres>>
         ELSE /\ decodeTried' = decodeTried \cup ({widx[w]} \X Eyes)
              /\ imagesMutex' = Unlocked
              /\ wpc' = [wpc EXCEPT ![w] = "check"]
              /\ widx' = [widx EXCEPT ![w] = NoIndex]
              /\ wres' = [wres EXCEPT ![w] = {}]
              /\ UNCHANGED <<surface, surfaceLoaded, remapped>>
    /\ UNCHANGED <<viewer, N, scanVars, calibFixed, prefetchVars, tableAlive, rendererAlive, texture, textureCreated,
                   uiVars, running, nextImageToLoad, backgroundLoadingComplete,
                   threadsCompleted, mpc, eagerI, sdlFailures, exitCode>>

\* The critical section of the load function: the second assignment for
\* the same surface.
WorkerFlag(w) ==
    /\ wpc[w] = "flag"
    /\ imagesMutex = HeldBy(w)
    /\ Assign(StoreOrder[2], <<widx[w], NextEye(wres[w])>>)
    /\ IF TextureAtStore("background")
         THEN /\ texture' = [texture EXCEPT
                                ![<<widx[w], NextEye(wres[w])>>] = @ + 1]
              /\ textureCreated' = [textureCreated EXCEPT
                                ![<<widx[w], NextEye(wres[w])>>] = TRUE]
         ELSE UNCHANGED <<texture, textureCreated>>
    /\ wres' = [wres EXCEPT ![w] = @ \ {NextEye(wres[w])}]
    /\ wpc' = [wpc EXCEPT ![w] = "store"]
    /\ UNCHANGED <<viewer, N, scanVars, calibFixed, prefetchVars, tableAlive, rendererAlive,
                   decodeTried, uiVars, running, nextImageToLoad,
                   backgroundLoadingComplete, threadsCompleted, imagesMutex,
                   widx, mpc, eagerI, sdlFailures, exitCode>>

\* After the loop: the static counter threadsCompleted is incremented and the
\* NUM_LOADING_THREADS-th worker to do so sets backgroundLoadingComplete.
WorkerCount(w) ==
    /\ wpc[w] = "count"
    /\ threadsCompleted' = threadsCompleted + 1
    /\ backgroundLoadingComplete' =
          IF threadsCompleted + 1 = NUM_LOADING_THREADS
            THEN TRUE ELSE backgroundLoadingComplete
    /\ wpc' = [wpc EXCEPT ![w] = "done"]
    /\ UNCHANGED <<viewer, N, scanVars, calibVars, prefetchVars, tableAlive, rendererAlive, slotVars, decodeTried,
                   uiVars, running, nextImageToLoad, widx, wres, imagesMutex,
                   mpc, eagerI, sdlFailures, exitCode>>


(* ----------------------- run loop and events --------------------------- *)
\* run(): while (running).  When the flag is down run() returns, main
\* returns 0 and the viewer's destructor calls cleanup.
LoopTest ==
    /\ mpc = "looptest"
    /\ IF running
         THEN /\ mpc' = "poll"
              /\ UNCHANGED exitCode
         ELSE /\ mpc' = "cleanup"
              /\ exitCode' = 0
    /\ UNCHANGED <<viewer, N, scanVars, calibVars, prefetchVars, tableAlive, rendererAlive, slotVars, decodeTried,
                   uiVars, running, poolVars, imagesMutex, eagerI,
                   sdlFailures>>

\* The events SDL_PollEvent may deliver: type, key symbol, the byte read as
\* e.window.event and the two words read as e.window.data1 / data2
\* (SDL_Event is a union, so every event has bytes at those offsets; in an
\* event that is not a window event they belong to other members).
Events ==
    {[type |-> "QUIT",        sym |-> "NONE",   wevent |-> "OTHER",
      data |-> <<0, 0>>],
     [type |-> "KEYDOWN",     sym |-> "LEFT",   wevent |-> "OTHER",
      data |-> <<0, 0>>],
     [type |-> "KEYDOWN",     sym |-> "RIGHT",  wevent |-> "OTHER",
      data |-> <<0, 0>>],
     [type |-> "KEYDOWN",     sym |-> "ESCAPE", wevent |-> "OTHER",
      data |-> <<0, 0>>],
     [type |-> "KEYDOWN",     sym |-> "OTHER",  wevent |-> "RESIZED",
      data |-> <<0, 0>>],
     [type |-> "WINDOWEVENT", sym |-> "NONE",   wevent |-> "RESIZED",
      data |-> <<800, 600>>],
     [type |-> "WINDOWEVENT", sym |-> "NONE",   wevent |-> "OTHER",
      data |-> <<0, 0>>],
     [type |-> "OTHER",       sym |-> "NONE",   wevent |-> "RESIZED",
      data |-> <<0, 5>>],
     [type |-> "OTHER",       sym |-> "NONE",   wevent |-> "OTHER",
      data |-> <<0, 0>>]}

\* The events that leave e.window.event different from
\* SDL_WINDOWEVENT_RESIZED.
PlainEvents == {e \in Events : e.wevent # "RESIZED"}

\* e.window.data1, e.window.data2 of the delivered event.
ResizedTo(e) == e.data

\* Mutant: nextImage without the bound test.
NextIndexUnbounded(c) == c + 1

\* nextImage: if (currentIndex < size - 1) currentIndex++.
NextIndex(c) == IF c < N - 1 THEN c + 1 ELSE c

\* previousImage: if (currentIndex > 0) currentIndex--.
PreviousIndex(c) == IF c > 0 THEN c - 1 ELSE c

\* The resize branch of handleEvent is taken: the single viewers test the
\* event type first, the stereo viewers read e.window.event of any event
\* that is neither SDL_QUIT nor SDL_KEYDOWN.
ResizeBranch(e) ==
    /\ e.type \notin {"QUIT", "KEYDOWN"}
    /\ viewer \in {"stereo", "stereo_undistort"} \/ e.type = "WINDOWEVENT"
    /\ e.wevent = "RESIZED"

\* The cursor after handleEvent(e).
\* Mutant: nextImage / previousImage of the prefetch viewer only move the
\* cursor.
AfterMoveNoLoad == "poll"

\* nextImage / previousImage of the prefetch viewer: after the cursor moved,
\* loadImageSurface(currentIndex) is called before the handler returns.
AfterMove == "nav_lock"

IndexAfter(e) ==
    IF e.type = "KEYDOWN" /\ e.sym = "RIGHT" THEN NextIndex(currentIndex)
    ELSE IF e.type = "KEYDOWN" /\ e.sym = "LEFT" THEN PreviousIndex(currentIndex)
    ELSE currentIndex

\* while (SDL_PollEvent(&e)) handleEvent(e): one pending event e is taken
\* from the queue and handled.  In the prefetch viewer nextImage and
\* previousImage go on to loadImageSurface(currentIndex) when they moved the
\* cursor.
HandleEvent(e) ==
    /\ mpc = "poll"
    /\ running' = IF \/ e.type = "QUIT"
                     \/ e.type = "KEYDOWN" /\ e.sym = "ESCAPE"
                    THEN FALSE ELSE running
    /\ currentIndex' = IndexAfter(e)
    /\ windowSize' = IF ResizeBranch(e) THEN ResizedTo(e) ELSE windowSize
    /\ mpc' = IF viewer = "prefetch" /\ IndexAfter(e) # currentIndex
                THEN AfterMove ELSE "poll"
    /\ UNCHANGED <<viewer, N, scanVars, calibVars, prefetchVars, tableAlive, rendererAlive, slotVars,
                   decodeTried, poolVars, imagesMutex, eagerI, sdlFailures,
                   exitCode>>

(* ------------------------------ render --------------------------------- *)
\* render() once the event queue is empty: for a cursor inside the table,
\* ensureTextureCreated / ensureStereoTexturesCreated takes the lock.
BeginRender ==
    /\ mpc = "poll"
    /\ IF currentIndex >= 0 /\ currentIndex < N /\ tableAlive
         THEN /\ imagesMutex = Unlocked
              /\ imagesMutex' = HeldByMain
              /\ mpc' = "ensure"
         ELSE /\ mpc' = "looptest"
              /\ UNCHANGED imagesMutex
    /\ UNCHANGED <<viewer, N, scanVars, calibVars, prefetchVars, tableAlive, rendererAlive, slotVars, decodeTried,
                   uiVars, running, poolVars, eagerI, sdlFailures, exitCode>>

\* Mutant: the test forgets !textureCreated.
NeedsTextureAgain(s) == surfaceLoaded[s] /\ surface[s] # 0

\* The test that guards texture creation for one slot.
NeedsTexture(s) == surfaceLoaded[s] /\ ~textureCreated[s] /\ surface[s] # 0

\* Mutant: the lock taken for the ensure-texture code is kept into render.
AfterEnsureHeld == HeldByMain

\* The mutex when ensureTextureCreated returns: its lock_guard is a local of
\* the function, so the return releases the mutex.
AfterEnsure == Unlocked

\* Mutant: textureCreated is set without testing the returned handle.
TextureOkUntested(made) == TRUE

\* if (images[index]->texture) textureCreated = true: the flag follows the
\* handle SDL_CreateTextureFromSurface returned.
TextureOk(made) == made

\* Critical section of ensureTextureCreated / ensureStereoTexturesCreated
\* for index = currentIndex; the lock is released on return.
EnsureTexture ==
    /\ mpc = "ensure"
    /\ viewer \in PoolViewers
    /\ imagesMutex = HeldByMain
    /\ LET want == {e \in Eyes : NeedsTexture(<<currentIndex, e>>)} IN
       \E tex \in TextureOutcomes(want) :
        /\ texture' = [s \in Slots |->
              IF s[1] = currentIndex /\ s[2] \in tex
                THEN texture[s] + 1 ELSE texture[s]]
        /\ textureCreated' = [s \in Slots |->
              IF s[1] = currentIndex /\ s[2] \in want /\ TextureOk(s[2] \in tex)
                THEN TRUE ELSE textureCreated[s]]
        /\ sdlFailures' = sdlFailures + Cardinality(want \ tex)
    /\ imagesMutex' = AfterEnsure
    /\ mpc' = "draw_wait"
    /\ UNCHANGED <<viewer, N, scanVars, calibVars, prefetchVars, tableAlive, rendererAlive, surface, surfaceLoaded,
                   decodeTried, uiVars, running, poolVars, eagerI,
                   exitCode>>

\* render(): std::lock_guard<std::mutex> lock(imagesMutex) after the call.
DrawLock ==
    /\ mpc = "draw_wait"
    /\ imagesMutex = Unlocked
    /\ imagesMutex' = HeldByMain
    /\ mpc' = "draw"
    /\ UNCHANGED <<viewer, N, scanVars, calibVars, prefetchVars, tableAlive, rendererAlive, slotVars, decodeTried,
                   uiVars, running, poolVars, eagerI, sdlFailures, exitCode>>

\* Mutant: render draws the texture without testing textureCreated.
DrawnUntested(s) == "texture"

\* What render() draws for slot s: the texture when textureCreated is set
\* and the handle is non-null, else the loading rectangle (the prefetch
\* viewer has no else branch and leaves the cleared frame, "placeholder"
\* here as well).
Drawn(s) ==
    IF textureCreated[s] /\ texture[s] # 0 THEN "texture" ELSE "placeholder"

\* render(): the texture or the placeholder is drawn, the lock is released,
\* the frame is presented and the loop sleeps 16 ms.
Draw ==
    /\ mpc = "draw"
    /\ imagesMutex = HeldByMain
    /\ imagesMutex' = Unlocked
    /\ mpc' = "looptest"
    /\ UNCHANGED <<viewer, N, scanVars, calibVars, prefetchVars, tableAlive, rendererAlive, slotVars, decodeTried,
                   uiVars, running, poolVars, eagerI, sdlFailures, exitCode>>

(* ------------------------------ cleanup -------------------------------- *)
\* cleanup(): running = false.
CleanupStop ==
    /\ mpc = "cleanup"
    /\ running' = FALSE
    /\ mpc' = "join"
    /\ UNCHANGED <<viewer, N, scanVars, calibVars, prefetchVars, tableAlive, rendererAlive, slotVars, decodeTried,
                   uiVars, poolVars, imagesMutex, eagerI, sdlFailures, exitCode>>

\* Mutant: cleanup does not join.
NotJoined == TRUE

\* loader.join() returns for every thread of backgroundLoaders (pool
\* viewers), prefetchThread.join() returns (prefetch viewer): every started
\* thread has returned from its function.
AllJoined ==
    /\ \A w \in Workers : wpc[w] \in {"unstarted", "done"}
    /\ ppc \in {"unstarted", "done"}

\* cleanup(): the join loop and backgroundLoaders.clear().
CleanupJoin ==
    /\ mpc = "join"
    /\ AllJoined
    /\ mpc' = "clear"
    /\ UNCHANGED <<viewer, N, scanVars, calibVars, prefetchVars, tableAlive, rendererAlive, slotVars, decodeTried,
                   uiVars, running, poolVars, imagesMutex, eagerI,
                   sdlFailures, exitCode>>

\* cleanup(): images.clear() / stereoPairs.clear() destroys every slot with
\* its texture and surface.
CleanupClear ==
    /\ mpc = "clear"
    /\ tableAlive' = FALSE
    /\ surface' = << >>
    /\ surfaceLoaded' = << >>
    /\ texture' = << >>
    /\ textureCreated' = << >>
    /\ mpc' = "destroy"
    /\ UNCHANGED <<viewer, N, scanVars, calibVars, prefetchVars, rendererAlive, decodeTried, uiVars, running,
                   poolVars, imagesMutex, eagerI, sdlFailures, exitCode>>

\* cleanup(): SDL_DestroyRenderer, SDL_DestroyWindow, IMG_Quit, SDL_Quit.
CleanupDestroy ==
    /\ mpc = "destroy"
    /\ rendererAlive' = FALSE
    /\ mpc' = "exit"
    /\ UNCHANGED <<viewer, N, scanVars, calibVars, prefetchVars, tableAlive, slotVars, decodeTried, uiVars,
                   running, poolVars, imagesMutex, eagerI, sdlFailures, exitCode>>

(* --------------------------- prefetch viewer --------------------------- *)
\* Window of the prefetch scan around the cursor.  The source sets 20; the
\* model explores a smaller window.
PREFETCH_COUNT == 1

HeldByPrefetch == <<"prefetch">>

\* The image of index i (ImageData has one surface and one texture).
Img(i) == <<i, "left">>

\* loadImageList of the prefetch viewer after the scan: an empty list returns
\* false; otherwise the table is sized and loadImageSurface(0) is called.
LoadListPrefetch ==
    /\ mpc = "load"
    /\ viewer = "prefetch"
    /\ IF ListEmpty
         THEN /\ exitCode' = 1
              /\ mpc' = "cleanup"
              /\ UNCHANGED <<tableAlive, slotVars>>
         ELSE /\ tableAlive' = TRUE
              /\ surface' = FreshSlots(0)
              /\ surfaceLoaded' = FreshSlots(FALSE)
              /\ texture' = FreshSlots(0)
              /\ textureCreated' = FreshSlots(FALSE)
              /\ mpc' = "first_lock"
              /\ UNCHANGED exitCode
    /\ UNCHANGED <<viewer, N, scanVars, calibVars, prefetchVars, rendererAlive, decodeTried, uiVars,
                   running, poolVars, imagesMutex, eagerI, sdlFailures>>

\* Index the main thread passes to loadImageSurface: 0 from loadImageList,
\* currentIndex from nextImage / previousImage.
MainLoadIndex == IF mpc \in {"first_lock", "first_load"} THEN 0 ELSE currentIndex

\* loadImageSurface on the main thread: an index outside the table returns
\* at once; otherwise std::lock_guard lock(imageMutex).
MainLoadLock ==
    /\ mpc \in {"first_lock", "nav_lock"}
    /\ IF MainLoadIndex < 0 \/ MainLoadIndex >= N
         THEN /\ mpc' = IF mpc = "first_lock" THEN "pstart" ELSE "poll"
              /\ UNCHANGED imagesMutex
         ELSE /\ imagesMutex = Unlocked
              /\ imagesMutex' = HeldByMain
              /\ mpc' = IF mpc = "first_lock" THEN "first_load" ELSE "nav_load"
    /\ UNCHANGED <<viewer, N, scanVars, calibVars, prefetchVars, tableAlive, rendererAlive, slotVars,
                   decodeTried, uiVars, running, poolVars, eagerI, sdlFailures,
                   exitCode>>

\* Body of loadImageSurface(i), run with the lock held: a slot that is not
\* surfaceLoaded gets surface = IMG_Load(...), and the flag when that is
\* non-null; a slot that is surfaceLoaded is left alone.
LoadImageSurfaceBody(i) ==
    IF surfaceLoaded[Img(i)]
      THEN UNCHANGED <<surface, surfaceLoaded, decodeTried, sdlFailures>>
      ELSE \E ok \in LoadOutcomes :
            /\ surface' = [surface EXCEPT ![Img(i)] = IF ok # {} THEN 1 ELSE 0]
            /\ surfaceLoaded' = [surfaceLoaded EXCEPT ![Img(i)] = (ok # {})]
            /\ decodeTried' = decodeTried \cup {Img(i)}
            /\ sdlFailures' = sdlFailures + Cardinality(Eyes \ ok)

\* loadImageSurface on the main thread: the body, the unlock, the return to
\* loadImageList (which starts the prefetch thread next) or to the event loop.
MainLoadSurface ==
    /\ mpc \in {"first_load", "nav_load"}
    /\ imagesMutex = HeldByMain
    /\ LoadImageSurfaceBody(MainLoadIndex)
    /\ imagesMutex' = Unlocked
    /\ mpc' = IF mpc = "first_load" THEN "pstart" ELSE "poll"
    /\ UNCHANGED <<viewer, N, scanVars, calibVars, prefetchVars, tableAlive, rendererAlive, texture,
                   textureCreated, uiVars, running, poolVars, eagerI, exitCode>>

\* prefetchThread = std::thread(&FisheyeViewer::prefetchImages, this);
\* loadImageList returns true and main enters run().
StartPrefetch ==
    /\ mpc = "pstart"
    /\ ppc' = "check"
    /\ mpc' = "looptest"
    /\ UNCHANGED <<viewer, N, scanVars, calibVars, toLoad, tableAlive, rendererAlive, slotVars,
                   decodeTried, uiVars, running, poolVars, imagesMutex, eagerI,
                   sdlFailures, exitCode>>

\* Mutant: the flag is reset when the surface is freed.
FlagClearedOnFree(s) == FALSE

\* surfaceLoaded of a slot whose surface ensureTextureLoaded has just freed:
\* the code leaves the flag as it is.
FlagAfterFree(s) == surfaceLoaded[s]

\* Mutant: the pointer is left as it was when the surface is freed.
PointerAfterFreeKept(ptr) == ptr

\* The slot's surface pointer once ensureTextureLoaded has freed the buffer
\* ptr pointed to: SDL_FreeSurface(surface); surface = nullptr; under the
\* same lock_guard.
PointerAfterFree(ptr) == 0

\* Critical section of ensureTextureLoaded(currentIndex): a loaded surface
\* without texture gets one; when that succeeds `loaded` is set, the surface
\* is freed and the pointer is set to nullptr.
EnsureTextureLoaded ==
    /\ mpc = "ensure"
    /\ viewer = "prefetch"
    /\ imagesMutex = HeldByMain
    /\ LET s == Img(currentIndex)
           want == IF NeedsTexture(s) THEN {"left"} ELSE {}
       IN \E tex \in TextureOutcomes(want) :
            /\ texture' = [texture EXCEPT ![s] = IF tex # {} THEN @ + 1 ELSE @]
            /\ textureCreated' = [textureCreated EXCEPT ![s] = @ \/ tex # {}]
            /\ surface' = [surface EXCEPT
                             ![s] = IF tex # {} THEN PointerAfterFree(@) ELSE @]
            /\ surfaceLoaded' = [surfaceLoaded EXCEPT
                                   ![s] = IF tex # {} THEN FlagAfterFree(s) ELSE @]
            /\ sdlFailures' = sdlFailures + Cardinality(want \ tex)
    /\ imagesMutex' = AfterEnsure
    /\ mpc' = "draw_wait"
    /\ UNCHANGED <<viewer, N, scanVars, calibVars, prefetchVars, tableAlive, rendererAlive,
                   decodeTried, uiVars, running, poolVars, eagerI, exitCode>>

\* prefetchImages: while (running).
PrefetchCheck ==
    /\ ppc = "check"
    /\ ppc' = IF running THEN "scan" ELSE "done"
    /\ UNCHANGED <<viewer, N, scanVars, calibVars, toLoad, tableAlive, rendererAlive, slotVars,
                   decodeTried, uiVars, running, poolVars, imagesMutex, mpc,
                   eagerI, sdlFailures, exitCode>>

\* The indices lo..hi that are inside the table and not surfaceLoaded, in
\* ascending order.
RECURSIVE ScanFrom(_, _)
ScanFrom(lo, hi) ==
    IF lo > hi THEN << >>
    ELSE IF lo >= 0 /\ lo < N /\ ~surfaceLoaded[Img(lo)]
           THEN <<lo>> \o ScanFrom(lo + 1, hi)
           ELSE ScanFrom(lo + 1, hi)

\* prefetchImages: the scan of the window around currentIndex, under the lock.
PrefetchScan ==
    /\ ppc = "scan"
    /\ imagesMutex = Unlocked
    /\ toLoad' = ScanFrom(currentIndex - PREFETCH_COUNT,
                          currentIndex + PREFETCH_COUNT)
    /\ ppc' = "iter"
    /\ UNCHANGED <<viewer, N, scanVars, calibVars, tableAlive, rendererAlive, slotVars, decodeTried,
                   uiVars, running, poolVars, imagesMutex, mpc, eagerI,
                   sdlFailures, exitCode>>

\* prefetchImages: for (int index : indicesToLoad) { if (!running) break; ..
\* and, after the loop, SDL_Delay(100) and the next loop test.
PrefetchIter ==
    /\ ppc = "iter"
    /\ IF toLoad = << >> \/ ~running
         THEN /\ ppc' = "check"
              /\ toLoad' = << >>
         ELSE /\ ppc' = "plock"
              /\ UNCHANGED toLoad
    /\ UNCHANGED <<viewer, N, scanVars, calibVars, tableAlive, rendererAlive, slotVars, decodeTried,
                   uiVars, running, poolVars, imagesMutex, mpc, eagerI,
                   sdlFailures, exitCode>>

\* loadImageSurface(index) on the prefetch thread: the lock.
PrefetchLock ==
    /\ ppc = "plock"
    /\ imagesMutex = Unlocked
    /\ imagesMutex' = HeldByPrefetch
    /\ ppc' = "pload"
    /\ UNCHANGED <<viewer, N, scanVars, calibVars, toLoad, tableAlive, rendererAlive, slotVars,
                   decodeTried, uiVars, running, poolVars, mpc, eagerI,
                   sdlFailures, exitCode>>

\* loadImageSurface(index) on the prefetch thread: the body and the unlock.
PrefetchLoad ==
    /\ ppc = "pload"
    /\ imagesMutex = HeldByPrefetch
    /\ LoadImageSurfaceBody(Head(toLoad))
    /\ toLoad' = Tail(toLoad)
    /\ imagesMutex' = Unlocked
    /\ ppc' = "iter"
    /\ UNCHANGED <<viewer, N, scanVars, calibVars, tableAlive, rendererAlive, texture, textureCreated,
                   uiVars, running, poolVars, mpc, eagerI, exitCode>>

(* -------------------------- calibration -------------------------------- *)
\* Mutant: main of the viewer returns after a failed loadCalibration.
AfterCalibrationFailureFatal == "cleanup"

\* main of the viewer with calibration: a false loadCalibration prints a
\* warning and execution goes on to loadStereoPairs.
AfterCalibrationFailure == "load"

\* loadCalibration up to createUndistortionMaps: loadFisheyeParams of either
\* yaml file throws std::runtime_error (file absent or malformed), the catch
\* clause leaves calibrationLoaded false and returns false.
LoadParams ==
    /\ mpc = "calib"
    /\ viewer = "stereo_undistort"
    /\ \E ok \in BOOLEAN :
          mpc' = IF ok THEN "maps_left" ELSE AfterCalibrationFailure
    /\ calibrationLoaded' = FALSE
    /\ UNCHANGED <<viewer, N, scanVars, fileVars, sizeWrites, mapKind, fallbackTries, remapped,
                   processed, prefetchVars, tableAlive, rendererAlive,
                   slotVars, decodeTried, uiVars, running, poolVars,
                   imagesMutex, eagerI, sdlFailures, exitCode>>

\* Mutant: the right maps are built from the run loop.
MapsPositionLate(c) == IF c = "left" THEN "maps_left" ELSE "looptest"

\* Where the maps of camera c are built: the left block and then the right
\* block of createUndistortionMaps, both inside loadCalibration.
MapsPosition(c) == IF c = "left" THEN "maps_left" ELSE "maps_right"

\* The position after the maps of camera c are built: the right camera after
\* the left one, the end of loadCalibration after the right one.
AfterMaps(c) == IF c = "left" THEN MapsPosition("right") ELSE "load"

\* createUndistortionMaps for camera c (outputImageSize is assigned before
\* the left block, displayImageSize after the right one): the fisheye
\* construction; when it
\* throws cv::Exception the handler calls the standard construction once, and
\* an exception of that call leaves createUndistortionMaps and is caught by
\* loadCalibration, which returns false. calibrationLoaded becomes true only
\* after the maps of both cameras.
CreateUndistortionMaps(c) ==
    /\ mpc = MapsPosition(c)
    /\ viewer = "stereo_undistort"
    /\ \E primary \in BOOLEAN, fallback \in BOOLEAN :
        /\ sizeWrites' =
              [output  |-> sizeWrites.output + (IF c = "left" THEN 1 ELSE 0),
               display |-> sizeWrites.display +
                             (IF c = "right" /\ (primary \/ fallback)
                                THEN 1 ELSE 0)]
        /\IF primary
            THEN /\ mapKind' = [mapKind EXCEPT ![c] = "fisheye"]
                 /\ calibrationLoaded' = (c = "right")
                 /\ mpc' = AfterMaps(c)
                 /\ UNCHANGED fallbackTries
            ELSE /\ fallbackTries' = [fallbackTries EXCEPT ![c] = @ + 1]
                 /\ IF fallback
                      THEN /\ mapKind' = [mapKind EXCEPT ![c] = "rectilinear"]
                           /\ calibrationLoaded' = (c = "right")
                           /\ mpc' = AfterMaps(c)
                      ELSE /\ calibrationLoaded' = FALSE
                           /\ mpc' = AfterCalibrationFailure
                           /\ UNCHANGED mapKind
    /\ UNCHANGED <<viewer, N, scanVars, fileVars, remapped, processed, prefetchVars,
                   tableAlive, rendererAlive, slotVars, decodeTried, uiVars,
                   running, poolVars, imagesMutex, eagerI, sdlFailures,
                   exitCode>>

\* main of the preview tool: a false loadCalibration returns 1 before
\* processAndDisplay is called.
PreviewCalibration ==
    /\ mpc = "calib"
    /\ viewer = "preview"
    /\ \E ok \in BOOLEAN :
          /\ calibrationLoaded' = ok
          /\ mpc' = IF ok THEN "process" ELSE "exit"
          /\ exitCode' = IF ok THEN exitCode ELSE 1
    /\ UNCHANGED <<viewer, N, scanVars, fileVars, sizeWrites, mapKind, fallbackTries, remapped,
                   processed, prefetchVars, tableAlive, rendererAlive,
                   slotVars, decodeTried, uiVars, running, poolVars,
                   imagesMutex, eagerI, sdlFailures>>

\* processAndDisplay and the return 0 of main: the image is processed when
\* its file exists.
ProcessAndDisplay ==
    /\ mpc = "process"
    /\ viewer = "preview"
    /\ \E exists \in BOOLEAN : processed' = exists
    /\ exitCode' = 0
    /\ mpc' = "exit"
    /\ UNCHANGED <<viewer, N, scanVars, fileVars, sizeWrites, calibrationLoaded, mapKind,
                   fallbackTries, remapped, prefetchVars, tableAlive,
                   rendererAlive, slotVars, decodeTried, uiVars, running,
                   poolVars, imagesMutex, eagerI, sdlFailures>>

(* --------------------------- specification ----------------------------- *)
MainStep ==
    \/ LoadList
    \/ LoadListPrefetch
    \/ MainLoadLock
    \/ MainLoadSurface
    \/ StartPrefetch
    \/ EnsureTextureLoaded
    \/ EagerLoop
    \/ EagerStore
    \/ StartBackgroundLoading
    \/ LoopTest
    \/ \E e \in PlainEvents : HandleEvent(e)
    \/ BeginRender
    \/ EnsureTexture
    \/ DrawLock
    \/ Draw
    \/ CleanupStop
    \/ CleanupJoin
    \/ CleanupClear
    \/ CleanupDestroy

WorkerStep(w) ==
    \/ WorkerCheck(w)
    \/ WorkerClaim(w)
    \/ WorkerLoad(w)
    \/ WorkerLock(w)
    \/ WorkerStore(w)
    \/ WorkerFlag(w)
    \/ WorkerCount(w)

PrefetchStep ==
    \/ PrefetchCheck
    \/ PrefetchScan
    \/ PrefetchIter
    \/ PrefetchLock
    \/ PrefetchLoad

Next ==
    \/ MainStep
    \/ \E w \in Workers : WorkerStep(w)
    \/ PrefetchStep

Spec == Init /\ [][Next]_vars

\* The scheduler runs every thread that can take a step.
FairSpec ==
    /\ Spec
    /\ WF_vars(MainStep)
    /\ \A w \in Workers : WF_vars(WorkerStep(w))
    /\ WF_vars(PrefetchStep)


\* The viewers with every event SDL_PollEvent may deliver, those whose
\* byte at e.window.event equals SDL_WINDOWEVENT_RESIZED included.
UINext ==
    \/ Next
    \/ \E e \in Events \ PlainEvents : HandleEvent(e)

UISpec == Init /\ [][UINext]_vars

\* The programs that load a calibration, explored on their own.
CalibInit ==
    /\ viewer \in CalibViewers
    /\ windowSize = IF viewer = "preview" THEN <<0, 0>> ELSE <<1800, 900>>
    /\ InitCommon
    /\ N <= INITIAL_LOAD_COUNT + 1
    /\ ScanIdle
    /\ CalibIdle

CalibMainStep ==
    \/ LoadParams
    \/ \E c \in Cameras : CreateUndistortionMaps(c)
    \/ PreviewCalibration
    \/ ProcessAndDisplay
    \/ LoadList
    \/ EagerLoop
    \/ EagerStore
    \/ StartBackgroundLoading
    \/ LoopTest
    \/ \E e \in PlainEvents : HandleEvent(e)
    \/ BeginRender
    \/ EnsureTexture
    \/ DrawLock
    \/ Draw
    \/ CleanupStop
    \/ CleanupJoin
    \/ CleanupClear
    \/ CleanupDestroy

CalibNext ==
    \/ CalibMainStep
    \/ \E w \in Workers : WorkerStep(w)

CalibSpec == CalibInit /\ [][CalibNext]_vars

\* The two programs that free a decoded buffer while the viewer runs (the
\* viewer with calibration frees the original after undistortImage, the
\* prefetch viewer frees the surface once its texture exists), explored
\* together with the preview tool.
BufferInit ==
    /\ viewer \in CalibViewers \cup {"prefetch"}
    /\ windowSize = IF viewer = "preview" THEN <<0, 0>>
                    ELSE IF viewer = "prefetch" THEN <<1280, 720>>
                    ELSE <<1800, 900>>
    /\ InitCommon
    /\ viewer \in CalibViewers => N <= INITIAL_LOAD_COUNT + 1
    /\ ScanIdle
    /\ CalibIdle

BufferNext ==
    \/ CalibNext
    \/ LoadListPrefetch
    \/ MainLoadLock
    \/ MainLoadSurface
    \/ StartPrefetch
    \/ EnsureTextureLoaded
    \/ PrefetchStep

BufferSpec == BufferInit /\ [][BufferNext]_vars

(* ------------------- loadStereoPairs: the pairing ---------------------- *)
\* Most files a directory holds in the explored runs.
MaxFiles == 3

\* File names are a stem and an extension.  A stem is a string of the
\* letters 1 < 2, so that <<1>>, <<1, 2>>, <<2>>, <<2, 1>> stand for
\* "a", "ab", "b", "ba".
Stems == {<<1>>, <<1, 2>>, <<2>>, <<2, 1>>}
Extensions == {"png", "JPG", "txt"}
Files == [stem : Stems, ext : Extensions]
Directories == {d \in SUBSET Files : Cardinality(d) <= MaxFiles}

\* std::transform(..., ::tolower) on the extension.
ToLower(ext) == IF ext = "JPG" THEN "jpg" ELSE ext

\* extension == ".jpg" || extension == ".jpeg" || extension == ".png"
IsImage(f) == ToLower(f.ext) \in {"jpg", "jpeg", "png"}

\* The stems a directory scan inserts into its std::set.
BaseNames(dir) == {f.stem : f \in {g \in dir : IsImage(g)}}

\* operator< of std::string: lexicographic order.
RECURSIVE LexLess(_, _)
LexLess(a, b) ==
    IF b = << >> THEN FALSE
    ELSE IF a = << >> THEN TRUE
    ELSE IF Head(a) # Head(b) THEN Head(a) < Head(b)
    ELSE LexLess(Tail(a), Tail(b))

\* The elements of a std::set<std::string> in iteration order.
RECURSIVE InOrder(_)
InOrder(S) ==
    IF S = {} THEN << >>
    ELSE LET m == CHOOSE x \in S : \A y \in S \ {x} : LexLess(x, y)
         IN <<m>> \o InOrder(S \ {m})

\* Mutant: the lookup in rightBaseNames is left out.
MatchesAny(name) == TRUE

\* rightBaseNames.find(leftName) != rightBaseNames.end()
Matches(name) == name \in rightBaseNames

\* The loop over leftBaseNames that pushes the matching names.
RECURSIVE PushMatching(_)
PushMatching(names) ==
    IF names = << >> THEN << >>
    ELSE (IF Matches(Head(names)) THEN <<Head(names)>> ELSE << >>)
           \o PushMatching(Tail(names))

\* std::sort(matchingPairs.begin(), matchingPairs.end()): insertion of x
\* into a sorted sequence, and the sort.
RECURSIVE InsertSorted(_, _)
InsertSorted(x, seq) ==
    IF seq = << >> THEN <<x>>
    ELSE IF LexLess(Head(seq), x)
           THEN <<Head(seq)>> \o InsertSorted(x, Tail(seq))
           ELSE <<x>> \o seq

RECURSIVE Sort(_)
Sort(seq) ==
    IF seq = << >> THEN << >>
    ELSE InsertSorted(Head(seq), Sort(Tail(seq)))

PairInit ==
    /\ viewer = "stereo"
    /\ windowSize = <<1600, 800>>
    /\ N = 0
    /\ InitCommon
    /\ leftDir \in Directories
    /\ rightDir \in Directories
    /\ leftBaseNames = {}
    /\ rightBaseNames = {}
    /\ matchingPairs = << >>
    /\ spc = "scan_left"
    /\ choice = "unread"
    /\ baseName = << >>
    /\ CalibIdle

viewerVars0 == <<viewer, N, tableAlive, rendererAlive, slotVars, decodeTried,
                 uiVars, running, poolVars, imagesMutex, mpc, eagerI,
                 prefetchVars, sdlFailures, exitCode>>
viewerVars == <<viewerVars0, calibVars>>

\* The scan of the left directory.
ScanLeft ==
    /\ spc = "scan_left"
    /\ leftBaseNames' = BaseNames(leftDir)
    /\ spc' = "scan_right"
    /\ UNCHANGED <<viewerVars, leftDir, rightDir, rightBaseNames, matchingPairs,
                   choice, baseName>>

\* The scan of the right directory.
ScanRight ==
    /\ spc = "scan_right"
    /\ rightBaseNames' = BaseNames(rightDir)
    /\ spc' = "match"
    /\ UNCHANGED <<viewerVars, leftDir, rightDir, leftBaseNames, matchingPairs,
                   choice, baseName>>

\* The matching loop and the test matchingPairs.empty(), which returns false.
FindMatchingPairs ==
    /\ spc = "match"
    /\ matchingPairs' = PushMatching(InOrder(leftBaseNames))
    /\ spc' = IF matchingPairs' = << >> THEN "failed" ELSE "sort"
    /\ UNCHANGED <<viewerVars, leftDir, rightDir, leftBaseNames, rightBaseNames,
                   choice, baseName>>

\* std::sort of the matching names.
SortPairs ==
    /\ spc = "sort"
    /\ matchingPairs' = Sort(matchingPairs)
    /\ spc' = "sorted"
    /\ UNCHANGED <<viewerVars, leftDir, rightDir, leftBaseNames, rightBaseNames,
                   choice, baseName>>

\* The size above which loadStereoPairs asks (1000 pairs; 2000 images in
\* loadImageList), scaled to the explored directories.
PairCap == 2

\* The lines std::getline may read at the prompt.
Choices == {"1", "2", "", "y"}

\* Mutant: the list is cut whatever the answer.
TruncatesAlways(line) == TRUE

\* if (choice == "2")
Truncates(line) == line = "2"

\* matchingPairs.resize(cap) on a longer vector: its first cap elements.
Resize(seq, cap) == SubSeq(seq, 1, cap)

\* The size test and the prompt: only a list longer than the cap reads a
\* line, and only the answer "2" cuts it.
CapPairs ==
    /\ spc = "sorted"
    /\ IF Len(matchingPairs) > PairCap
         THEN \E line \in Choices :
                 /\ choice' = line
                 /\ matchingPairs' = IF Truncates(line)
                                        THEN Resize(matchingPairs, PairCap)
                                        ELSE matchingPairs
         ELSE UNCHANGED <<choice, matchingPairs>>
    /\ spc' = "capped"
    /\ UNCHANGED <<viewerVars, leftDir, rightDir, leftBaseNames, rightBaseNames,
                   baseName>>

\* stereoPairs.resize(matchingPairs.size()) and the loop that names the slots.
NamePairs ==
    /\ spc = "capped"
    /\ baseName' = [i \in 1..Len(matchingPairs) |-> matchingPairs[i]]
    /\ spc' = "named"
    /\ UNCHANGED <<viewerVars, leftDir, rightDir, leftBaseNames, rightBaseNames,
                   matchingPairs, choice>>

PairNext ==
    \/ ScanLeft
    \/ ScanRight
    \/ FindMatchingPairs
    \/ SortPairs
    \/ CapPairs
    \/ NamePairs

PairSpec == PairInit /\ [][PairNext]_vars

(* ------------------ load_calibration.cpp: text files ------------------- *)
\* Most lines of a calibration file in the explored runs.
MaxLines == 2

\* The file does not exist.
Missing == [exists |-> FALSE, lines |-> << >>]

\* Names are strings of characters: "c0" and "c1" stand for the cameras
\* image_00 and image_01 of loadCalibrationCameraToPose, "P0" and "R0" for
\* P_rect_00 and R_rect_00 of loadPerspectiveIntrinsic.
Names == {<<"c", "0">>, <<"c", "1">>, <<"P", "0">>, <<"R", "0">>}

\* A line is its text up to and including the first colon (the whole text if
\* there is none) and the number of doubles that operator>> extracts from
\* the rest.
Heads ==
    {n \o <<":">> : n \in Names}
      \cup {<<"c", "0", "0", ":">>, <<" ", "c", "0", ":">>, <<"c", "0">>,
            <<"#">>}
Lines == [head : Heads, nvals : {9, 12, 13}]
TextFiles ==
    {[exists |-> TRUE, lines |-> l] :
        l \in UNION {[1..n -> Lines] : n \in 0..MaxLines}}

\* Mutant: the name is looked for anywhere in the line.
FoundAnywhere(line, name) ==
    \E i \in 1..Len(line.head) :
        /\ i + Len(name) <= Len(line.head)
        /\ SubSeq(line.head, i, i + Len(name)) = name \o <<":">>

\* line.find(name + ":") == 0
Found(line, name) ==
    /\ Len(line.head) >= Len(name) + 1
    /\ SubSeq(line.head, 1, Len(name) + 1) = name \o <<":">>

\* cv::Mat(): the empty matrix, returned normally.
EmptyMat == [raised |-> FALSE, rows |-> 0, cols |-> 0]

\* throw std::runtime_error("Expected ... values, got ...").
Raised == [raised |-> TRUE, rows |-> 0, cols |-> 0]

\* readVariable on the lines of the file: the first line for which Found
\* holds ends the search; no such line returns the empty matrix; a number of
\* values other than rows * cols throws; otherwise the rows x cols matrix.
RECURSIVE ReadVariable(_, _, _, _)
ReadVariable(lines, name, rows, cols) ==
    IF lines = << >> THEN EmptyMat
    ELSE IF Found(Head(lines), name)
           THEN IF Head(lines).nvals # rows * cols
                  THEN Raised
                  ELSE [raised |-> FALSE, rows |-> rows, cols |-> cols]
           ELSE ReadVariable(Tail(lines), name, rows, cols)

\* The names a loader asks for, in order, with the shape it passes to
\* readVariable and whether the result is widened to 4x4.
Requested(l) ==
    IF l = "CameraToPose"
      THEN << [name |-> <<"c", "0">>, rows |-> 3, cols |-> 4, widen |-> TRUE],
              [name |-> <<"c", "1">>, rows |-> 3, cols |-> 4, widen |-> TRUE] >>
      ELSE << [name |-> <<"P", "0">>, rows |-> 3, cols |-> 4, widen |-> TRUE],
              [name |-> <<"R", "0">>, rows |-> 3, cols |-> 3, widen |-> FALSE] >>

FileInit ==
    /\ viewer = "preview"
    /\ windowSize = <<0, 0>>
    /\ N = 0
    /\ InitCommon
    /\ ScanIdle
    /\ calibrationLoaded = FALSE
    /\ mapKind = [c \in Cameras |-> "none"]
    /\ fallbackTries = [c \in Cameras |-> 0]
    /\ remapped = {}
    /\ processed = FALSE
    /\ sizeWrites = [output |-> 0, display |-> 0]
    /\ calFile \in TextFiles \cup {Missing}
    /\ loader \in {"CameraToPose", "PerspectiveIntrinsic"}
    /\ todo = << >>
    /\ entries = << >>
    /\ fpc = "check"

\* checkFile: a file that cannot be opened throws std::runtime_error.
CheckFile ==
    /\ fpc = "check"
    /\ IF ~calFile.exists
         THEN /\ fpc' = "error"
              /\ UNCHANGED todo
         ELSE /\ fpc' = "read"
              /\ todo' = Requested(loader)
    /\ UNCHANGED <<viewerVars0, scanVars, calibrationLoaded, mapKind,
                   fallbackTries, remapped, processed, sizeWrites, calFile, loader,
                   entries>>

\* One iteration of the loop over the names: readVariable, and when the
\* matrix is not empty the map entry (4x4 for a 3x4 matrix); after the last
\* name the map is returned.
ReadNext ==
    /\ fpc = "read"
    /\ IF todo = << >>
         THEN /\ fpc' = "returned"
              /\ UNCHANGED <<todo, entries>>
         ELSE LET q == Head(todo)
                  mat == ReadVariable(calFile.lines, q.name, q.rows, q.cols)
              IN IF mat.raised
                   THEN /\ fpc' = "error"
                        /\ UNCHANGED <<todo, entries>>
                   ELSE /\ entries' =
                             IF mat.rows # 0
                               THEN [n \in DOMAIN entries \cup {q.name} |->
                                       IF n = q.name
                                         THEN IF q.widen
                                                THEN [rows |-> 4, cols |-> 4]
                                                ELSE [rows |-> mat.rows,
                                                      cols |-> mat.cols]
                                         ELSE entries[n]]
                               ELSE entries
                        /\ todo' = Tail(todo)
                        /\ UNCHANGED fpc
    /\ UNCHANGED <<viewerVars0, scanVars, calibrationLoaded, mapKind,
                   fallbackTries, remapped, processed, sizeWrites, calFile, loader>>

FileNext ==
    \/ CheckFile
    \/ ReadNext

FileSpec == FileInit /\ [][FileNext]_vars

(* ------------------------- decode status ------------------------------- *)
\* A worker is inside loadSurfaceInBackground / loadStereoPairInBackground
\* for index i.
InLoad(w, i) == wpc[w] \in {"load", "lock", "store", "flag"} /\ widx[w] = i

\* The eager loader is inside the loop body for index i.
EagerDecoding(i) == mpc = "eager_decode" /\ eagerI = i

\* Number of threads executing the decode of index i.
DecoderCount(i) ==
    Cardinality({w \in Workers : InLoad(w, i)})
      + (IF EagerDecoding(i) THEN 1 ELSE 0)

\* The spec's decodeStatus of a slot, read off the code's state.
DecodeStatus(s) ==
    IF surfaceLoaded[s] THEN "Decoded"
    ELSE IF DecoderCount(s[1]) > 0 THEN "Decoding"
    ELSE IF s \in decodeTried THEN "Failed"
    ELSE "Pending"

PoolQuiescent ==
    /\ viewer \in PoolViewers
    /\ tableAlive
    /\ nextImageToLoad >= N
    /\ \A w \in Workers : wpc[w] \notin {"load", "lock", "store", "flag"}

(* ------------------------------ claims --------------------------------- *)
\* C1: in the pool viewers, whenever the claim counter is >= N and no worker
\* is inside a load call, every slot has decode status Decoded or Failed.
C1_QuiescentAllTerminal ==
    PoolQuiescent =>
        \A s \in Slots : DecodeStatus(s) \in {"Decoded", "Failed"}

\* C1 witness: the pool has claimed everything and is idle, one of the
\* slots it loaded is Decoded and one is Failed.
C1_Witness ==
    /\ PoolQuiescent
    /\ N > INITIAL_LOAD_COUNT
    /\ \E s \in Slots : s[1] >= INITIAL_LOAD_COUNT /\ DecodeStatus(s) = "Decoded"
    /\ \E s \in Slots : s[1] >= INITIAL_LOAD_COUNT /\ DecodeStatus(s) = "Failed"

\* C2: for every index, at most one thread (eager loader or pool worker) is
\* executing its decode at any instant.
C2_OneDecoderPerSlot ==
    \A i \in Indices : DecoderCount(i) <= 1

\* C2 witness: two workers decode at the same time, on different indices.
C2_Witness ==
    \E v, w \in Workers :
        /\ v # w
        /\ wpc[v] = "load" /\ wpc[w] = "load"
        /\ widx[v] # widx[w]

\* C4 as claimed: the claim counter never exceeds the sequence length N.
C4_Original_NeverExceedsN ==
    nextImageToLoad <= N

\* C4 amended: the claim counter never decreases and never exceeds
\* N + NUM_LOADING_THREADS (each worker's last fetch_add overshoots by one).
C4_MonotoneBoundedByNPlusThreads ==
    [][/\ nextImageToLoad' >= nextImageToLoad
       /\ nextImageToLoad' <= N + NUM_LOADING_THREADS]_vars

\* C4 witness: every worker has made its last, overshooting fetch_add.
C4_Witness ==
    /\ N > INITIAL_LOAD_COUNT
    /\ nextImageToLoad = N + NUM_LOADING_THREADS

\* C5 as claimed: when the eager load returns, every index below min(K, N)
\* is Decoded with its buffer stored.
C5_Original_EagerAllDecoded ==
    (viewer \in PoolViewers /\ mpc = "start") =>
        \A s \in Slots :
            s[1] < Min(INITIAL_LOAD_COUNT, N) =>
                surfaceLoaded[s] /\ surface[s] # 0

\* C5 amended: when the eager load returns, no pool worker has been started
\* and every index below min(K, N) has a terminal decode status: Decoded with
\* its buffer stored when its file decoded, Failed otherwise.
C5_EagerAllTerminal ==
    (viewer \in PoolViewers /\ mpc = "start") =>
        /\ \A w \in Workers : wpc[w] = "unstarted"
        /\ \A s \in Slots :
            s[1] < Min(INITIAL_LOAD_COUNT, N) =>
                /\ DecodeStatus(s) \in {"Decoded", "Failed"}
                /\ DecodeStatus(s) = "Decoded" => surface[s] # 0

\* C5 witness: the eager load has returned for a list longer than the
\* window, with one eager slot Decoded and one Failed.
C5_Witness ==
    /\ viewer \in PoolViewers /\ mpc = "start"
    /\ N > INITIAL_LOAD_COUNT
    /\ \E s \in Slots : s[1] < INITIAL_LOAD_COUNT /\ DecodeStatus(s) = "Decoded"
    /\ \E s \in Slots : s[1] < INITIAL_LOAD_COUNT /\ DecodeStatus(s) = "Failed"

\* C6: the claim counter is min(K, N) or more once any worker is started,
\* and no worker ever claims or decodes an index in the eager range [0, K).
C6_PoolSkipsEagerRange ==
    /\ (\E w \in Workers : wpc[w] # "unstarted") =>
          nextImageToLoad >= Min(INITIAL_LOAD_COUNT, N)
    /\ \A w \in Workers :
          widx[w] # NoIndex => widx[w] >= INITIAL_LOAD_COUNT

\* C6 witness: a worker decodes the first index after the eager window.
C6_Witness ==
    \E w \in Workers : wpc[w] = "load" /\ widx[w] = INITIAL_LOAD_COUNT

\* C7: materialization is idempotent: a step never changes the texture
\* handle or the flag of a slot that is already Materialized, and no slot
\* and eye ever gets a second texture.
C7_MaterializeOnce ==
    [][(tableAlive /\ tableAlive') =>
          \A s \in Slots :
              /\ textureCreated[s] =>
                    textureCreated'[s] /\ texture'[s] = texture[s]
              /\ texture'[s] <= 1]_vars

\* C7 witness: the render thread is inside the ensure-texture call for a
\* slot of the pool range that an earlier frame has materialized.
C7_Witness ==
    /\ viewer \in PoolViewers
    /\ mpc = "ensure"
    /\ currentIndex >= INITIAL_LOAD_COUNT
    /\ \A e \in Eyes : textureCreated[<<currentIndex, e>>]


\* C8 as claimed: once running is false no worker starts a new claim.
C8_Original_NoClaimAfterStop ==
    [][\A w \in Workers :
          (~running /\ wpc[w] = "claim") => wpc'[w] # "load"]_vars

\* C8 amended: once running is false, a worker that reaches the loop test
\* returns and a returned worker stays returned, so each worker finishes at
\* most one more load (the one in flight, or the one it claims when it had
\* already passed the loop test); and cleanup, once entered, always gets
\* through the join and the teardown.
C8_CancellationDrains ==
    /\ [][\A w \in Workers :
            ~running =>
                /\ wpc[w] = "check" => wpc'[w] \in {"check", "count"}
                /\ wpc[w] \in {"load", "lock", "store", "flag"} =>
                      wpc'[w] \in {"load", "lock", "store", "flag", "check"}
                /\ wpc[w] \in {"count", "done"} =>
                      wpc'[w] \in {"count", "done"}]_vars
    /\ (mpc = "cleanup") ~> (mpc = "exit" /\ AllJoined)

\* C8 witness: cleanup waits in the join while a claim is in flight.
C8_Witness ==
    /\ mpc = "join"
    /\ ~running
    /\ \E w \in Workers : wpc[w] = "load"

\* C3: before teardown, no step resets surfaceLoaded or textureCreated
\* (`loaded` in the prefetch viewer) of any slot and eye from true to false.
C3_FlagsMonotone ==
    [][(tableAlive /\ tableAlive') =>
          \A s \in Slots :
              /\ surfaceLoaded[s] => surfaceLoaded'[s]
              /\ textureCreated[s] => textureCreated'[s]]_vars

\* C3 witness: the prefetch viewer has materialized a slot and freed its
\* surface, the flags of the slot are both still set, and the prefetch
\* thread is scanning again.
C3_Witness ==
    /\ viewer = "prefetch"
    /\ tableAlive
    /\ ppc = "iter"
    /\ \E s \in Slots :
          surfaceLoaded[s] /\ textureCreated[s] /\ surface[s] = 0

C10_CursorSaturates ==
    [][N >= 1 =>
          /\ currentIndex \in 0..(N - 1)
          /\ currentIndex' \in 0..(N - 1)
          /\ \A e \in Events :
                HandleEvent(e) =>
                    /\ (e.type = "KEYDOWN" /\ e.sym = "RIGHT") =>
                          currentIndex' = IF currentIndex = N - 1
                                            THEN N - 1 ELSE currentIndex + 1
                    /\ (e.type = "KEYDOWN" /\ e.sym = "LEFT") =>
                          currentIndex' = IF currentIndex = 0
                                            THEN 0 ELSE currentIndex - 1]_vars

\* C10 witness: the cursor has been advanced to the last index and the
\* event loop is about to handle the next key.
C10_Witness ==
    /\ N = MaxN
    /\ currentIndex = N - 1
    /\ mpc = "poll"

\* C11: in the pool viewers a worker holds the table mutex only for the
\* stores of pointer and flag, never during the file load, and the step
\* that ends a decode is taken without the mutex; so a render thread that
\* waits for the mutex waits for one store at most.
C11_NoDecodeUnderLock ==
    [][(viewer \in PoolViewers) =>
          \A w \in Workers :
              /\ imagesMutex = HeldBy(w) => wpc[w] \in {"store", "flag"}
              /\ imagesMutex' = HeldBy(w) => wpc'[w] \in {"store", "flag"}
              /\ (wpc[w] = "load" /\ wpc'[w] # "load") =>
                    imagesMutex # HeldBy(w)]_vars

\* C11 witness: the render thread waits for the mutex that one worker holds
\* for its store while another worker is inside a file load.
C11_Witness ==
    /\ viewer \in PoolViewers
    /\ mpc = "draw_wait"
    /\ \E w, v \in Workers :
          /\ w # v
          /\ imagesMutex = HeldBy(w)
          /\ wpc[w] = "store"
          /\ wpc[v] = "load"

\* C12: in the pool viewers a slot whose surfaceLoaded flag is set has its
\* buffer pointer set, in every state, also inside the critical section
\* that stores them: the pointer is stored first.
C12_DecodedHasBuffer ==
    (viewer \in PoolViewers /\ tableAlive) =>
        \A s \in Slots : surfaceLoaded[s] => surface[s] = 1

\* C12 witness: the slot under the cursor, in the pool range, is flagged and
\* the render thread is about to read it, while a worker is between the
\* pointer store and the flag store of another slot.
C12_Witness ==
    /\ viewer \in PoolViewers
    /\ currentIndex >= INITIAL_LOAD_COUNT
    /\ mpc = "draw_wait"
    /\ \E e \in Eyes : surfaceLoaded[<<currentIndex, e>>]
    /\ \E w \in Workers :
          /\ wpc[w] = "flag"
          /\ surface[<<widx[w], NextEye(wres[w])>>] = 1
          /\ ~surfaceLoaded[<<widx[w], NextEye(wres[w])>>]

\* C13: a thread that is inside a read or an update of slot fields owns the
\* mutex (worker stores, ensure-texture and draw on the render thread, the
\* prefetch viewer's loads), so at most one thread is inside one.
C13_SlotAccessUnderLock ==
    /\ \A w \in Workers :
          wpc[w] \in {"store", "flag"} => imagesMutex = HeldBy(w)
    /\ mpc \in {"ensure", "draw", "first_load", "nav_load"} =>
          imagesMutex = HeldByMain
    /\ ppc = "pload" => imagesMutex = HeldByPrefetch
    /\ Cardinality({w \in Workers : wpc[w] \in {"store", "flag"}})
         + (IF mpc \in {"ensure", "draw", "first_load", "nav_load"}
              THEN 1 ELSE 0)
         + (IF ppc = "pload" THEN 1 ELSE 0) <= 1

\* C13 witness: a worker is inside the stores for the slot under the
\* cursor while the render thread waits for the mutex to read that slot.
C13_Witness ==
    /\ mpc = "draw_wait"
    /\ \E w \in Workers :
          /\ wpc[w] = "flag"
          /\ widx[w] = currentIndex
          /\ imagesMutex = HeldBy(w)

\* C14: in the pool viewers a slot and eye whose decode failed stays Failed
\* in every later step before teardown (no thread decodes it again, it never
\* becomes Decoded), it has no texture, and a frame drawn with the cursor on
\* it shows the placeholder.
C14_FailedStaysPlaceholder ==
    [][(viewer \in PoolViewers /\ tableAlive /\ tableAlive') =>
          \A s \in Slots :
              DecodeStatus(s) = "Failed" =>
                  /\ DecodeStatus(s)' = "Failed"
                  /\ ~textureCreated[s] /\ texture[s] = 0
                  /\ ~textureCreated'[s] /\ texture'[s] = 0
                  /\ (mpc = "draw" /\ mpc' = "looptest" /\ s[1] = currentIndex)
                        => Drawn(s) = "placeholder"]_vars

\* C14 witness: a frame is being drawn with the cursor on a Failed slot of
\* the pool range, after another index of the pool range was decoded by a
\* worker and materialized by an earlier frame.
C14_Witness ==
    /\ viewer \in PoolViewers
    /\ mpc = "draw"
    /\ currentIndex >= INITIAL_LOAD_COUNT
    /\ \E e \in Eyes : DecodeStatus(<<currentIndex, e>>) = "Failed"
    /\ \E s \in Slots :
          /\ s[1] >= INITIAL_LOAD_COUNT
          /\ s[1] # currentIndex
          /\ textureCreated[s]

C16_PairsAreSortedIntersection ==
    LET inLeft  == {f.stem : f \in {g \in leftDir : g.ext \in {"png", "JPG"}}}
        inRight == {f.stem : f \in {g \in rightDir : g.ext \in {"png", "JPG"}}}
        both    == inLeft \cap inRight
    IN /\ spc = "sorted" =>
            /\ {matchingPairs[i] : i \in DOMAIN matchingPairs} = both
            /\ Len(matchingPairs) = Cardinality(both)
            /\ \A i \in 1..(Len(matchingPairs) - 1) :
                  LexLess(matchingPairs[i], matchingPairs[i + 1])
       /\ spc = "failed" => both = {}
       /\ spc \in {"sort", "sorted"} => both # {}

\* C16 witness: left {a, ab, b} and right {ab, b, ba} give [ab, b].
C16_Witness ==
    /\ spc = "sorted"
    /\ BaseNames(leftDir) = {<<1>>, <<1, 2>>, <<2>>}
    /\ BaseNames(rightDir) = {<<1, 2>>, <<2>>, <<2, 1>>}
    /\ matchingPairs = << <<1, 2>>, <<2>> >>

\* C17: when the scan yields no image or no pair, loading fails before any
\* slot is created and before any loader thread is started, and the status
\* main returns is 1.
C17_EmptyListIsFatal ==
    N = 0 =>
        /\ ~tableAlive
        /\ surface = << >> /\ texture = << >>
        /\ \A w \in Workers : wpc[w] = "unstarted"
        /\ ppc = "unstarted"
        /\ nextImageToLoad = 0
        /\ mpc # "load" => exitCode = 1

\* C17 witness: a run on an empty directory has ended with status 1.
C17_Witness ==
    /\ N = 0
    /\ spc = "off"
    /\ mpc = "exit"
    /\ exitCode = 1

\* C18: when loadCalibration fails, the stereo viewer goes on in pass-through
\* mode: calibrationLoaded is false, no stored frame comes out of
\* undistortImage, and the failure never makes the exit status 1 (with a
\* non-empty list the viewer loads, materializes and draws); the preview
\* tool exits with status 1 and has processed nothing.
C18_PassThroughOrFatal ==
    /\ (viewer = "stereo_undistort" /\ ~calibrationLoaded) =>
          /\ remapped = {}
          /\ mpc \in {"calib", "maps_left", "maps_right"} => exitCode = -1
          /\ exitCode = 1 => N = 0
    /\ viewer = "preview" =>
          /\ processed => calibrationLoaded
          /\ (mpc = "exit" /\ ~calibrationLoaded) =>
                exitCode = 1 /\ ~processed
          /\ mpc = "process" => calibrationLoaded

\* C18 witness: calibration failed in the stereo viewer and a frame is being
\* drawn whose slot holds a texture made from a decoded surface that was
\* stored as decoded, one eye by the eager load and another index by a worker.
C18_Witness ==
    /\ viewer = "stereo_undistort"
    /\ ~calibrationLoaded
    /\ mpc = "draw"
    /\ \E e \in Eyes :
          /\ Drawn(<<currentIndex, e>>) = "texture"
          /\ <<currentIndex, e>> \notin remapped
    /\ \E s \in Slots : s[1] >= INITIAL_LOAD_COUNT /\ surfaceLoaded[s]

\* C19: in the stereo viewer a camera's fallback construction is attempted
\* at most once and only after its fisheye construction failed, rectilinear
\* maps come only from a fallback, and no step of loadCalibration ends the
\* program: from every calibration position main moves on towards
\* loadStereoPairs with the exit status untouched.
C19_OneFallbackNeverFatal ==
    /\ [](\A c \in Cameras :
            /\ fallbackTries[c] <= 1
            /\ mapKind[c] = "fisheye" => fallbackTries[c] = 0
            /\ mapKind[c] = "rectilinear" => fallbackTries[c] = 1)
    /\ [][(viewer = "stereo_undistort"
             /\ mpc \in {"calib", "maps_left", "maps_right"}) =>
                /\ mpc' \in {"maps_left", "maps_right", "load"}
                /\ exitCode' = exitCode]_vars

\* C19 witness: the fisheye construction and then the one fallback failed for
\* a camera, and the viewer is drawing a materialized frame.
C19_Witness ==
    /\ viewer = "stereo_undistort"
    /\ \E c \in Cameras : fallbackTries[c] = 1 /\ mapKind[c] = "none"
    /\ mpc = "draw"
    /\ \E e \in Eyes : Drawn(<<currentIndex, e>>) = "texture"

\* C20 as claimed: once both constructions have failed for one camera, every
\* stored frame of the other camera, whose own maps were built, has been
\* undistorted, and the program has not been ended by the failure.
C20_Original_OtherCameraUndistorted ==
    (viewer = "stereo_undistort" /\ tableAlive) =>
        \A c \in Cameras :
            (fallbackTries[c] = 1 /\ mapKind[c] = "none") =>
                /\ exitCode = 1 => N = 0
                /\ \A s \in Slots :
                      (s[2] # c /\ mapKind[s[2]] # "none"
                         /\ surfaceLoaded[s]) => s \in remapped

\* C21: the slot table names, in order, the first cap entries of the sorted
\* sequence when that sequence is longer than the cap and the answer at the
\* prompt is "2"; for every other answer, and for a sequence not longer than
\* the cap (no prompt), it names the whole sorted sequence.
C21_CapKeepsSortedPrefix ==
    LET both == BaseNames(leftDir) \cap BaseNames(rightDir)
        full == InOrder(both)
    IN spc = "named" =>
          /\ (Len(full) > PairCap /\ choice = "2") =>
                /\ Len(baseName) = PairCap
                /\ \A i \in 1..PairCap : baseName[i] = full[i]
          /\ (Len(full) > PairCap /\ choice # "2") =>
                baseName = full /\ choice \in Choices
          /\ Len(full) <= PairCap => baseName = full /\ choice = "unread"

\* C21 witness: three pairs a, ab, b were found, the answer was "2", and the
\* table names a and ab.
C21_Witness ==
    /\ spc = "named"
    /\ choice = "2"
    /\ BaseNames(leftDir) \cap BaseNames(rightDir) = {<<1>>, <<1, 2>>, <<2>>}
    /\ baseName = << <<1>>, <<1, 2>> >>

\* C22: in the pool viewers every step that changes a slot's texture handle
\* or its textureCreated flag is a step of the main thread, taken in
\* loadImageList, the eager load, ensureTextureCreated or cleanup: it moves
\* the main thread and leaves every worker where it was.
C22_TexturesOnlyOnMainThread ==
    [][(viewer \in PoolViewers
          /\ (texture' # texture \/ textureCreated' # textureCreated)) =>
             /\ mpc \in {"load", "eager_decode", "ensure", "clear"}
             /\ mpc' # mpc
             /\ wpc' = wpc /\ widx' = widx /\ wres' = wres]_vars

\* C22 witness: a worker inside its critical section has just stored the
\* surface of its index, whose texture fields are still untouched, while
\* another index of the pool range already has the texture the render thread
\* made.
C22_Witness ==
    /\ viewer \in PoolViewers
    /\ \E w \in Workers :
          /\ wpc[w] = "store"
          /\ imagesMutex = HeldBy(w)
          /\ surfaceLoaded[<<widx[w], "left">>]
          /\ ~textureCreated[<<widx[w], "left">>]
          /\ texture[<<widx[w], "left">>] = 0
          /\ \E s \in Slots :
                /\ s[1] >= INITIAL_LOAD_COUNT
                /\ s[1] # widx[w]
                /\ textureCreated[s]

\* C23: every frame of a pool viewer whose cursor is on a decoded slot
\* without texture attempts the creation; when it fails the slot keeps its
\* buffer and stays without texture (so the next frame attempts it again),
\* the frame draws the placeholder, and the render loop goes on: the main
\* thread proceeds to the drawing, running and the exit status untouched.
C23_FailedCreationIsRetried ==
    [][(viewer \in PoolViewers /\ mpc = "ensure" /\ mpc' # mpc) =>
          /\ mpc' = "draw_wait"
          /\ running' = running
          /\ exitCode' = exitCode
          /\ \A e \in Eyes :
                LET s == <<currentIndex, e>>
                IN (surfaceLoaded[s] /\ surface[s] # 0 /\ ~textureCreated[s]) =>
                      \/ textureCreated'[s] /\ texture'[s] = 1
                      \/ /\ ~textureCreated'[s] /\ texture'[s] = 0
                         /\ surfaceLoaded'[s] /\ surface'[s] # 0
                         /\ sdlFailures' > sdlFailures
                         /\ Drawn(s)' = "placeholder"
                         /\ NeedsTexture(s)']_vars

\* C23 witness: a later frame is inside ensureTextureCreated for a slot of
\* the pool range whose texture creation failed on an earlier frame: the one
\* SDL failure so far was not a load (every attempted slot is decoded) and
\* not another slot's texture (every other decoded slot has one).
C23_Witness ==
    /\ viewer \in PoolViewers
    /\ mpc = "ensure"
    /\ currentIndex >= INITIAL_LOAD_COUNT
    /\ sdlFailures = 1
    /\ \A s \in decodeTried : surfaceLoaded[s]
    /\ \E e \in Eyes :
          /\ NeedsTexture(<<currentIndex, e>>)
          /\ \A s \in Slots \ {<<currentIndex, e>>} :
                surfaceLoaded[s] => textureCreated[s]

\* C24 as claimed: in the prefetch viewer the UI thread never waits for the
\* duration of an image file load: it is never inside IMG_Load itself after
\* a navigation, and it never stands at a lock of imageMutex (before its own
\* loadImageSurface, or in render) while the prefetch thread holds the mutex
\* across an IMG_Load.
C24_Original_UINeverWaitsForLoad ==
    viewer = "prefetch" =>
        /\ ~(mpc = "nav_load" /\ ~surfaceLoaded[Img(currentIndex)])
        /\ ~(/\ mpc \in {"nav_lock", "draw_wait"}
             /\ imagesMutex = HeldByPrefetch
             /\ ppc = "pload"
             /\ ~surfaceLoaded[Img(Head(toLoad))])

\* C25: in the prefetch viewer a step of the event handler that changes the
\* cursor goes straight to loadImageSurface of the new index, and at every
\* position of the event loop and of render the decode of the visible slot
\* has been attempted: its status is Decoded or Failed, never Pending.
C25_MoveDecodesNewIndex ==
    /\ [](( /\ viewer = "prefetch"
            /\ tableAlive
            /\ mpc \in {"looptest", "poll", "ensure", "draw_wait", "draw"}) =>
              DecodeStatus(Img(currentIndex)) \in {"Decoded", "Failed"})
    /\ [][(viewer = "prefetch" /\ currentIndex' # currentIndex) =>
              /\ mpc = "poll" /\ mpc' = "nav_lock"
              /\ currentIndex' \in 0..(N - 1)]_vars

\* C25 witness: a frame is being drawn for an index outside the window of the
\* first scan; its surface was loaded by the navigation, while the prefetch
\* thread, which had listed the index, has not started that load.
C25_Witness ==
    /\ viewer = "prefetch"
    /\ mpc = "draw"
    /\ currentIndex > PREFETCH_COUNT
    /\ surfaceLoaded[Img(currentIndex)]
    /\ ppc \in {"iter", "plock"}
    /\ toLoad # << >>
    /\ Head(toLoad) = currentIndex

\* C26: readVariable returns the empty matrix, without an error, when no line
\* of the file starts with the name and a colon, and raises an error when
\* the first such line does not hold rows * cols values; a loader that
\* returns has an entry for exactly the requested names that start a line,
\* a loader that fails on an existing file met a requested name with a wrong
\* number of values, and a missing file always ends in an error.
C26_EntriesForPresentNames ==
    LET lines == calFile.lines
        Starts(i, n) ==
            /\ Len(lines[i].head) >= Len(n) + 1
            /\ \A k \in 1..Len(n) : lines[i].head[k] = n[k]
            /\ lines[i].head[Len(n) + 1] = ":"
        Present(n) == \E i \in DOMAIN lines : Starts(i, n)
        First(n) == CHOOSE i \in DOMAIN lines :
                        Starts(i, n) /\ \A j \in 1..(i - 1) : ~Starts(j, n)
        req == {Requested(loader)[i] : i \in DOMAIN Requested(loader)}
        WellFormed(q) == lines[First(q.name)].nvals = q.rows * q.cols
    IN fpc # "off" =>
          /\ ~calFile.exists => fpc \in {"check", "error"}
          /\ \A q \in req :
                LET mat == ReadVariable(lines, q.name, q.rows, q.cols)
                IN /\ ~Present(q.name) => mat = EmptyMat
                   /\ (Present(q.name) /\ ~WellFormed(q)) => mat.raised
                   /\ (Present(q.name) /\ WellFormed(q)) =>
                         ~mat.raised /\ mat.rows = q.rows /\ mat.cols = q.cols
          /\ fpc = "returned" =>
                /\ DOMAIN entries = {q.name : q \in {r \in req : Present(r.name)}}
                /\ \A q \in req : Present(q.name) => WellFormed(q)
          /\ (fpc = "error" /\ calFile.exists) =>
                \E q \in req : Present(q.name) /\ ~WellFormed(q)

\* C26 witness: loadCalibrationCameraToPose returned the single entry c1 for
\* a file whose other line holds the name c0 after a blank.
C26_Witness ==
    /\ fpc = "returned"
    /\ loader = "CameraToPose"
    /\ DOMAIN entries = {<<"c", "1">>}
    /\ \E i \in DOMAIN calFile.lines :
          calFile.lines[i].head = <<" ", "c", "0", ":">>

\* C27: in the pool viewers every step that changes the surface pointer or
\* the surfaceLoaded flag of a slot is a step of the thread that owns the
\* index: the eager loader inside the loop body for an index below
\* INITIAL_LOAD_COUNT, otherwise the one worker that claimed it; and every
\* assignment of a surface pointer, by a worker or by the eager loader,
\* finds the pointer still null, so no buffer is overwritten.
C27_OwnerWritesOnce ==
    [][(viewer \in PoolViewers /\ tableAlive /\ tableAlive') =>
          /\ \A s \in Slots :
                (surface'[s] # surface[s]
                   \/ surfaceLoaded'[s] # surfaceLoaded[s]) =>
                      IF s[1] < INITIAL_LOAD_COUNT
                        THEN /\ mpc = "eager_decode" /\ eagerI = s[1]
                             /\ mpc' = "eager"
                             /\ wpc' = wpc
                        ELSE /\ mpc' = mpc
                             /\ \E w \in Workers :
                                   /\ widx[w] = s[1]
                                   /\ wpc[w] \in {"store", "flag"}
                                   /\ wpc'[w] # wpc[w]
                                   /\ \A v \in Workers \ {w} : widx[v] # s[1]
          /\ \A w \in Workers :
                (wpc[w] = "store" /\ wpc'[w] = "flag") =>
                    surface[<<widx[w], NextEye(wres[w])>>] = 0
          /\ (mpc = "eager_decode" /\ mpc' = "eager") =>
                \A e \in Eyes : surface[<<eagerI, e>>] = 0]_vars

\* C27 witness: both workers are inside their critical-section code for
\* different indices of the pool range, one of them between its pointer and
\* its flag assignment, and the eager range holds a decoded slot.
C27_Witness ==
    /\ viewer \in PoolViewers
    /\ \E w \in Workers, v \in Workers :
          /\ wpc[w] = "flag"
          /\ wpc[v] \in {"lock", "store"}
          /\ widx[v] # widx[w]
          /\ wres[v] # {}
          /\ surface[<<widx[w], NextEye(wres[w])>>] = 1
    /\ \E s \in Slots : s[1] < INITIAL_LOAD_COUNT /\ surfaceLoaded[s]

\* C28: in the stereo viewer with undistortion every step that writes a
\* remap table or one of the two sizes is a step of loadCalibration, taken
\* while no slot table exists, nothing has been decoded and no worker has
\* started; and once the table exists or a decode has been attempted the
\* main thread has left loadCalibration for good.
C28_MapsWrittenOnlyByCalibration ==
    /\ [][(viewer = "stereo_undistort"
             /\ (mapKind' # mapKind \/ sizeWrites' # sizeWrites)) =>
                /\ mpc \in {"maps_left", "maps_right"}
                /\ ~tableAlive /\ decodeTried = {}
                /\ \A w \in Workers : wpc[w] = "unstarted"]_vars
    /\ []((viewer = "stereo_undistort"
             /\ (tableAlive \/ decodeTried # {}
                   \/ \E w \in Workers : wpc[w] # "unstarted")) =>
                mpc \notin {"calib", "maps_left", "maps_right"})
    /\ [](\A k \in {"output", "display"} : sizeWrites[k] <= 1)

\* C28 witness: both maps were built, a worker waits for the mutex with a
\* frame that came out of undistortImage, and the render thread is drawing
\* an undistorted frame.
C28_Witness ==
    /\ viewer = "stereo_undistort"
    /\ calibrationLoaded
    /\ \A c \in Cameras : mapKind[c] # "none"
    /\ sizeWrites = [output |-> 1, display |-> 1]
    /\ \E w \in Workers : wpc[w] = "lock" /\ wres[w] # {}
    /\ mpc = "draw"
    /\ \E e \in Eyes :
          /\ Drawn(<<currentIndex, e>>) = "texture"
          /\ <<currentIndex, e>> \in remapped

\* C29 as claimed: in the pool viewers backgroundLoadingComplete is true only
\* when every index below N has been attempted: the claim counter has
\* reached N, no worker is inside a load, and every slot was tried.
C29_Original_CompleteMeansAllAttempted ==
    (viewer \in PoolViewers /\ tableAlive /\ backgroundLoadingComplete) =>
        /\ nextImageToLoad >= N
        /\ \A w \in Workers : wpc[w] \notin {"load", "lock", "store", "flag"}
        /\ \A s \in Slots : s \in decodeTried

\* C30: in the pool viewers a worker that draws an index below N from the
\* claim counter enters the load function with that index whatever the value
\* of running, stays in it with the same index until the function returns,
\* and on return the decode of every eye of the index has been attempted; a
\* worker that has left its loop holds no claimed index.
C30_ClaimedIndexIsDecoded ==
    /\ [][(viewer \in PoolViewers) =>
            \A w \in Workers :
                /\ (wpc[w] = "claim" /\ wpc'[w] # "claim"
                      /\ nextImageToLoad < N) =>
                        wpc'[w] = "load" /\ widx'[w] = nextImageToLoad
                /\ (wpc[w] \in {"load", "lock", "store", "flag"}
                      /\ wpc'[w] # wpc[w]) =>
                        \/ /\ wpc'[w] \in {"lock", "store", "flag"}
                           /\ widx'[w] = widx[w]
                        \/ /\ wpc'[w] = "check"
                           /\ \A e \in Eyes : <<widx[w], e>> \in decodeTried']_vars
    /\ [](viewer \in PoolViewers =>
            \A w \in Workers :
                wpc[w] \in {"check", "claim", "count", "done"} =>
                    widx[w] = NoIndex)

\* C30 witness: cancellation was requested, cleanup waits in the join, and a
\* worker is storing the result of the decode of the index it had claimed.
C30_Witness ==
    /\ viewer \in PoolViewers
    /\ ~running
    /\ mpc = "join"
    /\ \E w \in Workers :
          /\ wpc[w] = "store"
          /\ wres[w] # {}
          /\ widx[w] \in INITIAL_LOAD_COUNT..(N - 1)

\* C31: in the pool viewers, while the slot table exists, every slot and eye
\* whose textureCreated flag is set has its surfaceLoaded flag set and a
\* non-null texture handle.
C31_MaterializedImpliesDecoded ==
    (viewer \in PoolViewers /\ tableAlive) =>
        \A s \in Slots :
            textureCreated[s] => surfaceLoaded[s] /\ texture[s] # 0

\* C31 witness: a slot of the eager range and a slot a worker decoded both
\* have their texture, while a third decoded slot has none yet.
C31_Witness ==
    /\ viewer \in PoolViewers
    /\ tableAlive
    /\ \E s \in Slots : s[1] < INITIAL_LOAD_COUNT /\ textureCreated[s]
    /\ \E s \in Slots : s[1] >= INITIAL_LOAD_COUNT /\ textureCreated[s]
    /\ \E s \in Slots : surfaceLoaded[s] /\ ~textureCreated[s]

\* C32: no thread stands at an acquisition of the table mutex while it holds
\* the mutex itself (the main thread before the eager store, the ensure
\* call, the draw or its own loadImageSurface; a worker before its store;
\* the prefetch thread before its scan or its load); until main has exited
\* some thread can always take a step; and every acquired lock is released.
C32_NoSelfDeadlock ==
    /\ []( /\ mpc \in {"eager_decode", "poll", "draw_wait", "first_lock",
                       "nav_lock"} => imagesMutex # HeldByMain
           /\ \A w \in Workers : wpc[w] = "lock" => imagesMutex # HeldBy(w)
           /\ ppc \in {"scan", "plock"} => imagesMutex # HeldByPrefetch
           /\ mpc # "exit" => ENABLED Next )
    /\ (imagesMutex # Unlocked) ~> (imagesMutex = Unlocked)

\* C32 witness: the render thread has left the ensure-texture call and
\* stands before the lock of the drawing code while a worker, which took the
\* mutex in between, is inside its critical section.
C32_Witness ==
    /\ viewer \in PoolViewers
    /\ mpc = "draw_wait"
    /\ \E w \in Workers : imagesMutex = HeldBy(w) /\ wpc[w] \in {"store", "flag"}

\* C33 (as stated, refuted): in the prefetch-window viewer every step that
\* writes the cursor currentIndex is taken with imageMutex held by the
\* writing (UI) thread.  nextImage / previousImage write it before they
\* take the lock, also while the prefetch thread holds the mutex.
C33_Original_CursorOnlyUnderMutex ==
    [][(viewer = "prefetch" /\ currentIndex' # currentIndex) =>
           imagesMutex = HeldByMain]_vars

\* C34 (as stated, refuted): in the prefetch-window viewer a thread that is
\* inside loadImageSurface(i) and about to call IMG_Load (it holds the mutex
\* and slot i is not surfaceLoaded) is making the first load attempt for i.
\* A failed attempt leaves surfaceLoaded false, so the next prefetch scan or
\* navigation step loads the file again.
C34_Original_LoadedAtMostOnce ==
    viewer = "prefetch" =>
        /\ (ppc = "pload" /\ ~surfaceLoaded[Img(Head(toLoad))]) =>
               Img(Head(toLoad)) \notin decodeTried
        /\ (mpc = "nav_load" /\ ~surfaceLoaded[Img(currentIndex)]) =>
               Img(currentIndex) \notin decodeTried

\* C35: in the stereo viewer the two eyes of a pair are tracked one by one.
\* Every Failed slot accounts for a failed call of its own (an eye whose
\* file decoded is never Failed because the other eye's file did not); in
\* the frame being drawn a Failed eye shows the placeholder and an eye with
\* its texture shows the texture, whatever the other eye's state; and the
\* ensure-texture call materializes every Decoded eye of the current pair
\* whose texture creation does not fail, also next to a Failed eye.
C35_EyesIndependent ==
    /\ [](viewer = "stereo" /\ tableAlive =>
            /\ Cardinality({s \in Slots : DecodeStatus(s) = "Failed"})
                 <= sdlFailures
            /\ mpc = "draw" =>
                 \A e \in Eyes :
                    /\ DecodeStatus(<<currentIndex, e>>) = "Failed" =>
                           Drawn(<<currentIndex, e>>) = "placeholder"
                    /\ textureCreated[<<currentIndex, e>>] =>
                           Drawn(<<currentIndex, e>>) = "texture")
    /\ [][(viewer = "stereo" /\ mpc = "ensure" /\ mpc' = "draw_wait"
             /\ sdlFailures' = sdlFailures) =>
            \A e \in Eyes : surfaceLoaded[<<currentIndex, e>>] =>
                              textureCreated'[<<currentIndex, e>>]]_vars

\* C35 witness: the frame being drawn has one Failed eye, which shows the
\* placeholder, next to a Decoded eye whose texture is drawn.
C35_Witness ==
    /\ viewer = "stereo"
    /\ tableAlive
    /\ mpc = "draw"
    /\ \E e \in Eyes : \E f \in Eyes \ {e} :
         /\ DecodeStatus(<<currentIndex, e>>) = "Failed"
         /\ Drawn(<<currentIndex, e>>) = "placeholder"
         /\ DecodeStatus(<<currentIndex, f>>) = "Decoded"
         /\ Drawn(<<currentIndex, f>>) = "texture"

\* C36: no slot holds a pointer to a freed buffer.  In the viewer with
\* calibration the original is freed right after undistortImage whenever
\* calibration is loaded, so there every non-null stored surface is one
\* undistortImage made; in the prefetch viewer the buffer is freed exactly
\* when the texture is made, and the step that frees it leaves the pointer
\* null, so a slot with a texture never has a non-null surface pointer.
C36_NoDanglingSurface ==
    /\ [](tableAlive =>
            /\ (viewer = "stereo_undistort" /\ calibrationLoaded) =>
                  \A s \in Slots : surface[s] # 0 => s \in remapped
            /\ viewer = "prefetch" =>
                  \A s \in Slots : textureCreated[s] => surface[s] = 0)
    /\ [][(viewer = "prefetch" /\ tableAlive /\ tableAlive') =>
            \A s \in Slots :
               (~textureCreated[s] /\ textureCreated'[s]) =>
                   (surface[s] # 0 /\ surface'[s] = 0
                      /\ imagesMutex = HeldByMain)]_vars

\* C36 witness: a frame is drawn after a worker of the viewer with
\* calibration has stored an undistorted copy (the original is freed), or
\* the prefetch viewer draws a texture whose surface was freed and nulled
\* while another slot still holds its decoded surface.
C36_Witness ==
    /\ tableAlive
    /\ \/ /\ viewer = "stereo_undistort"
          /\ calibrationLoaded
          /\ \E s \in Slots :
                s[1] >= INITIAL_LOAD_COUNT /\ surface[s] # 0 /\ s \in remapped
          /\ mpc = "draw"
       \/ /\ viewer = "prefetch"
          /\ mpc = "draw"
          /\ textureCreated[Img(currentIndex)]
          /\ surface[Img(currentIndex)] = 0
          /\ \E s \in Slots : surface[s] # 0

\* C37 (as stated, refuted): every step that changes the window dimensions
\* is handleEvent of a window event of subtype resized.  The stereo viewer
\* reads e.window.event of every event that is neither quit nor key-down,
\* so an event of another type whose byte there equals
\* SDL_WINDOWEVENT_RESIZED changes the dimensions to whatever its bytes at
\* data1 / data2 are.
C37_Original_OnlyResizedWindowEvents ==
    [][windowSize' # windowSize =>
          \E e \in Events :
              /\ e.type = "WINDOWEVENT"
              /\ e.wevent = "RESIZED"
              /\ HandleEvent(e)]_vars

=============================================================================
